---- MODULE Spec2Model ----
(***************************************************************************)
(* Model of urban-green-routing: the green-index computation               *)
(* (utils/geometry.py, calculate_greendex, as called by                    *)
(* ProcessVectors.calculate_areas) and the routing workflow                *)
(* (green_routing.py, GreenRouting.run_routing).                           *)
(*                                                                         *)
(* Floating-point columns are modelled as exact rationals extended with    *)
(* the IEEE special values not-a-number and +/- infinity, because the      *)
(* code's behaviour on x/0, 0/0 and missing values is what several         *)
(* properties are about.  Binary rounding error of finite values is not    *)
(* modelled.                                                               *)
(***************************************************************************)
EXTENDS Integers, Sequences, FiniteSets, TLC

VARIABLES
    pc,              \* position in the workflow
    gdf,             \* the joined edge table handed to calculate_greendex
    edges_file,      \* contents of <aoi>_edges_greendex.gpkg (NoFile if absent)
    user_input,      \* UserInput: routing_source, routing_target, routing_weight
    graph,           \* GreenRouting.graph
    edges,           \* GreenRouting.edges
    path,            \* GreenRouting.path
    edge_pairs,      \* GreenRouting.edge_pairs
    ordered_edges,   \* GreenRouting.ordered_edges
    route_edges_gdf, \* GreenRouting.route_edges_gdf
    route_line,      \* GreenRouting.route_line
    route_file,      \* contents of <aoi>_route_<field>.gpkg (NoRoute if absent)
    error,           \* the exception that ended the run ("none" if none)
    call,            \* the utils/geometry.py function called, with its arguments
    caller_gdf,      \* the caller's table (the first argument) after the call
    result,          \* the table the call returned
    aliased,         \* whether the returned table is the caller's table object
    output_vector,   \* contents of the file the call wrote (NoOutput if none)
    aoi_name,        \* UserInput.aoi_name of each of two pipeline runs
    programs,        \* the pipeline programs each of the two runs has finished
    opened,          \* the files each of the two runs has read or written
    bbox_mercator,   \* tile_calculator: the bounding box it is called with
    resolution,      \* tile_calculator: the resolution it is called with
    tile,            \* tile_calculator: the (width, height) it returned
    raster,          \* band 1 of the tree mask raster (<aoi>_tree_mask_reprojected.tif)
    disk,            \* contents of the vector files of the raw folder
    overwrite,       \* process_vectors: the overwrite argument of the run
    stage,           \* process_vectors: the stage the run has reached
    executed,        \* process_vectors: the stage methods called in the run
    raised,          \* process_vectors: the exception that left the run
    runs             \* calls of process_vectors so far

vars == <<pc, gdf, edges_file, user_input, graph, edges, path, edge_pairs,
          ordered_edges, route_edges_gdf, route_line, route_file, error,
          call, caller_gdf, result, aliased, output_vector,
          aoi_name, programs, opened, bbox_mercator, resolution, tile,
          raster, disk, overwrite, stage, executed, raised, runs>>

\* the state of a single call of a utils/geometry.py function
vector_vars == <<call, caller_gdf, result, aliased, output_vector>>

\* the state of two pipeline runs in one data folder
folder_vars == <<aoi_name, programs, opened>>

\* the state of a call of tile_calculator
tile_vars == <<bbox_mercator, resolution, tile>>

\* the state of process_vectors and of the files it works on
pipeline_vars == <<raster, disk, overwrite, stage, executed, raised, runs>>

\* the state of everything outside the greendex stage, the routing run and
\* the single calls
program_vars == <<folder_vars, tile_vars, pipeline_vars>>

\* the state of the greendex stage and of the routing run
routing_vars == <<gdf, edges_file, user_input, graph, edges, path, edge_pairs,
                  ordered_edges, route_edges_gdf, route_line, route_file>>

----------------------------------------------------------------------------
(* Bounds of the model *)

MaxRows == 3        \* rows of an edge table
MaxLen == 2         \* largest segment length
MaxArea == 3        \* largest polygon area

----------------------------------------------------------------------------
(* Floating-point values: exact rationals n/d (d > 0, lowest terms),       *)
(* not-a-number, and the two infinities.                                   *)

Abs(i) == IF i < 0 THEN -i ELSE i

Sgn(i) == IF i < 0 THEN -1 ELSE IF i = 0 THEN 0 ELSE 1

RECURSIVE GCD(_, _)
GCD(a, b) == IF b = 0 THEN a ELSE GCD(b, a % b)

RECURSIVE Pow10(_)
Pow10(e) == IF e = 0 THEN 1 ELSE 10 * Pow10(e - 1)

NaN == [k |-> "nan", n |-> 0, d |-> 1]

Inf(s) == [k |-> "inf", n |-> s, d |-> 1]

Rat(n, d) ==
    LET s == IF d < 0 THEN -1 ELSE 1
        g == GCD(Abs(n), Abs(d))
    IN  [k |-> "num", n |-> (s * n) \div g, d |-> (s * d) \div g]

F(i) == [k |-> "num", n |-> i, d |-> 1]

IsNum(x) == x.k = "num"

IsNaN(x) == x.k = "nan"

FSign(x) == Sgn(x.n)

FNeg(x) == IF IsNaN(x) THEN NaN ELSE [x EXCEPT !.n = -x.n]

FAdd(x, y) ==
    CASE IsNaN(x) \/ IsNaN(y) -> NaN
      [] x.k = "inf" /\ y.k = "inf" -> IF x.n = y.n THEN x ELSE NaN
      [] x.k = "inf" -> x
      [] y.k = "inf" -> y
      [] OTHER -> Rat(x.n * y.d + y.n * x.d, x.d * y.d)

FSub(x, y) == FAdd(x, FNeg(y))

FMul(x, y) ==
    CASE IsNaN(x) \/ IsNaN(y) -> NaN
      [] x.k = "inf" \/ y.k = "inf" ->
            IF FSign(x) * FSign(y) = 0 THEN NaN ELSE Inf(FSign(x) * FSign(y))
      [] OTHER -> Rat(x.n * y.n, x.d * y.d)

\* numpy true division: x/0 is +/-inf, 0/0 is nan, no exception is raised
FDiv(x, y) ==
    CASE IsNaN(x) \/ IsNaN(y) -> NaN
      [] x.k = "inf" /\ y.k = "inf" -> NaN
      [] y.k = "inf" -> F(0)
      [] x.k = "inf" -> Inf(IF FSign(y) < 0 THEN -x.n ELSE x.n)
      [] y.n = 0 -> IF x.n = 0 THEN NaN ELSE Inf(FSign(x))
      [] OTHER -> Rat(x.n * y.d, x.d * y.n)

\* IEEE comparison: every comparison with not-a-number is false
FLt(x, y) ==
    CASE IsNaN(x) \/ IsNaN(y) -> FALSE
      [] x.k = "inf" /\ y.k = "inf" -> x.n < y.n
      [] x.k = "inf" -> x.n < 0
      [] y.k = "inf" -> y.n > 0
      [] OTHER -> x.n * y.d < y.n * x.d

FEq(x, y) == ~IsNaN(x) /\ ~IsNaN(y) /\ x = y

FLe(x, y) == FLt(x, y) \/ FEq(x, y)

\* nearest integer to n/d (d > 0), ties to the even one (numpy rint)
RoundHalfEven(n, d) ==
    LET q == n \div d
        r == n % d
    IN  IF 2 * r < d THEN q
        ELSE IF 2 * r > d THEN q + 1
        ELSE IF q % 2 = 0 THEN q ELSE q + 1

\* Series.round(decimals): nan and the infinities are left as they are
round(x, decimals) ==
    IF ~IsNum(x) THEN x
    ELSE Rat(RoundHalfEven(x.n * Pow10(decimals), x.d), Pow10(decimals))

fillna_keep(x, value) == x

\* Series.fillna(value): replaces missing values (nan) only, not infinities
fillna(x, value) == IF IsNaN(x) THEN value ELSE x

----------------------------------------------------------------------------
(* Series reductions *)

RECURSIVE SeqMin(_)
SeqMin(s) ==
    IF Len(s) = 1 THEN s[1]
    ELSE LET m == SeqMin(Tail(s)) IN IF FLt(s[1], m) THEN s[1] ELSE m

RECURSIVE SeqMax(_)
SeqMax(s) ==
    IF Len(s) = 1 THEN s[1]
    ELSE LET m == SeqMax(Tail(s)) IN IF FLt(m, s[1]) THEN s[1] ELSE m

\* Series.min() / Series.max(): nan on an empty series
series_min(s) == IF Len(s) = 0 THEN NaN ELSE SeqMin(s)

series_max(s) == IF Len(s) = 0 THEN NaN ELSE SeqMax(s)

----------------------------------------------------------------------------
(* utils/geometry.py: calculate_greendex *)

Decimals == 4       \* .round(4)

NoFile == <<"no file">>

Column(t, c) == [i \in 1..Len(t) |-> t[i][c]]

\* gdf['greendex'] = gdf['area_y'] / gdf['area_x']; .fillna(0); .round(4)
greendex_col(area_x, area_y) ==
    round(fillna(FDiv(area_y, area_x), F(0)), Decimals)

\* (length - length.min()) / (length.max() - length.min())
length_norm(length, lmin, lmax) == FDiv(FSub(length, lmin), FSub(lmax, lmin))

green_norm_same(greendex) == greendex

\* 1 - gdf['greendex']
green_norm(greendex) == FSub(F(1), greendex)

\* gdf['weight'] = length_norm * green_norm; .round(4)
weight_col(ln, gn) == round(FMul(ln, gn), Decimals)

\* the table with the columns 'greendex' and 'weight' added to every row
calculate_greendex(t) ==
    LET lmin == series_min(Column(t, "length"))
        lmax == series_max(Column(t, "length"))
    IN  [i \in 1..Len(t) |->
            LET g == greendex_col(t[i].area_x, t[i].area_y)
                w == weight_col(length_norm(t[i].length, lmin, lmax), green_norm(g))
            IN  [greendex |-> g, weight |-> w] @@ t[i]]

----------------------------------------------------------------------------
(* process_vectors.py: ProcessVectors.calculate_areas, from the joined     *)
(* table on: calculate_greendex, then result.to_file(edges_greendex)       *)

calculate_areas ==
    /\ pc = "joined"
    /\ gdf' = calculate_greendex(gdf)
    /\ edges_file' = gdf'
    /\ pc' = "greendex_saved"
    /\ UNCHANGED <<user_input, graph, edges, path, edge_pairs, ordered_edges,
                   route_edges_gdf, route_line, route_file, error>>
    /\ UNCHANGED <<vector_vars, program_vars>>

----------------------------------------------------------------------------
(* green_routing.py: create_graph.  A networkx DiGraph keeps its arcs in   *)
(* dictionaries that iterate in insertion order: arcs holds the ordered     *)
(* pairs in the order of their first add_edge, attr the attributes of each *)

MaxNode == 3        \* the node table holds the osmids 1..MaxNode

Nodes == 1..MaxNode

EmptyGraph == [nodes |-> {}, arcs |-> <<>>, attr |-> <<>>]

InSeq(x, s) == \E i \in 1..Len(s) : s[i] = x

add_edge_both(G, u, v, data) ==
    [nodes |-> G.nodes \cup {u, v},
     arcs |-> LET one == IF InSeq(<<u, v>>, G.arcs) THEN G.arcs
                         ELSE Append(G.arcs, <<u, v>>)
              IN  IF InSeq(<<v, u>>, one) THEN one ELSE Append(one, <<v, u>>),
     attr |-> (<<u, v>> :> data) @@ (<<v, u>> :> data) @@ G.attr]

add_edge_first(G, u, v, data) ==
    [nodes |-> G.nodes \cup {u, v},
     arcs |-> IF InSeq(<<u, v>>, G.arcs) THEN G.arcs ELSE Append(G.arcs, <<u, v>>),
     attr |-> G.attr @@ (<<u, v>> :> data)]

\* G.add_edge(u, v, **data): a new arc, or new attribute values for the arc
\* that is already there; u and v become nodes if they were not
add_edge(G, u, v, data) ==
    [nodes |-> G.nodes \cup {u, v},
     arcs |-> IF InSeq(<<u, v>>, G.arcs) THEN G.arcs ELSE Append(G.arcs, <<u, v>>),
     attr |-> (<<u, v>> :> data) @@ G.attr]

RECURSIVE add_edges(_, _, _)
add_edges(G, t, i) ==
    IF i > Len(t) THEN G
    ELSE add_edges(add_edge(G, t[i].u, t[i].v,
                            [weight |-> t[i].weight, length |-> t[i].length]),
                   t, i + 1)

\* the DiGraph built from the node table and the edge table
build_graph(nodes, t) == add_edges([EmptyGraph EXCEPT !.nodes = nodes], t, 1)

create_graph ==
    /\ pc = "constructed"
    /\ graph' = build_graph(Nodes, edges_file)
    /\ edges' = edges_file
    /\ pc' = "graph_built"
    /\ UNCHANGED <<gdf, edges_file, user_input, path, edge_pairs, ordered_edges,
                   route_edges_gdf, route_line, route_file, error>>
    /\ UNCHANGED <<vector_vars, program_vars>>

----------------------------------------------------------------------------
(* heapq, on the tuples (distance, counter, node) *)

\* tuple comparison: the first items that are not equal decide
EntryLt(a, b) == IF FEq(a.d, b.d) THEN a.c < b.c ELSE FLt(a.d, b.d)

RECURSIVE siftdown(_, _, _, _)
siftdown(heap, startpos, pos, newitem) ==
    IF pos > startpos /\ EntryLt(newitem, heap[((pos - 1) \div 2) + 1])
    THEN siftdown([heap EXCEPT ![pos + 1] = heap[((pos - 1) \div 2) + 1]],
                  startpos, (pos - 1) \div 2, newitem)
    ELSE [heap EXCEPT ![pos + 1] = newitem]

RECURSIVE siftup(_, _, _, _)
siftup(heap, startpos, pos, newitem) ==
    LET childpos == 2 * pos + 1
        rightpos == childpos + 1
        c == IF rightpos < Len(heap) /\ ~EntryLt(heap[childpos + 1], heap[rightpos + 1])
             THEN rightpos ELSE childpos
    IN  IF childpos < Len(heap)
        THEN siftup([heap EXCEPT ![pos + 1] = heap[c + 1]], startpos, c, newitem)
        ELSE siftdown([heap EXCEPT ![pos + 1] = newitem], startpos, pos, newitem)

heappush(heap, item) == siftdown(Append(heap, item), 0, Len(heap), item)

\* the smallest item and the heap that is left
heappop(heap) ==
    LET lastelt == heap[Len(heap)]
        rest == SubSeq(heap, 1, Len(heap) - 1)
    IN  IF rest = <<>> THEN [item |-> lastelt, heap |-> <<>>]
        ELSE [item |-> rest[1], heap |-> siftup(rest, 0, 0, lastelt)]

----------------------------------------------------------------------------
(* networkx: shortest_path(G, source, target, weight), which for a given   *)
(* source, target and weight runs bidirectional_dijkstra.  Direction 1 is  *)
(* the forward search, direction 2 the backward one.                       *)

Has(dict, key) == key \in DOMAIN dict

Put(dict, key, val) == (key :> val) @@ dict

Reverse(s) == [i \in 1..Len(s) |-> s[Len(s) + 1 - i]]

\* G._succ[v] (direction 1) or G._pred[v] (direction 2), in insertion order
neighs(G, dir, v) ==
    IF dir = 1
    THEN LET From(a) == a[1] = v
             out == SelectSeq(G.arcs, From)
         IN  [i \in 1..Len(out) |-> out[i][2]]
    ELSE LET To(a) == a[2] = v
             inc == SelectSeq(G.arcs, To)
         IN  [i \in 1..Len(inc) |-> inc[i][1]]

\* the relaxation of the arcs at v, one neighbour after the other
RECURSIVE relax(_, _, _, _, _, _)
relax(G, field, st, dir, v, ws) ==
    IF ws = <<>> \/ st.status # "run" THEN st
    ELSE
      LET w == Head(ws)
          cost == IF dir = 1 THEN G.attr[<<v, w>>][field] ELSE G.attr[<<w, v>>][field]
          vwLength == FAdd(st.dists[dir][v], cost)
      IN  IF Has(st.dists[dir], w)
          THEN IF FLt(vwLength, st.dists[dir][w])
               THEN [st EXCEPT !.status = "ValueError"]
               ELSE relax(G, field, st, dir, v, Tail(ws))
          ELSE IF ~Has(st.seen[dir], w) \/ FLt(vwLength, st.seen[dir][w])
          THEN
            LET st1 == [st EXCEPT
                          !.seen[dir] = Put(@, w, vwLength),
                          !.fringe[dir] = heappush(@, [d |-> vwLength, c |-> st.c, v |-> w]),
                          !.c = @ + 1,
                          !.paths[dir] = Put(@, w, Append(st.paths[dir][v], w))]
                both == Has(st1.seen[1], w) /\ Has(st1.seen[2], w)
                totaldist == FAdd(st1.seen[1][w], st1.seen[2][w])
                st2 == IF both /\ (st1.finalpath = <<>> \/ FLt(totaldist, st1.finaldist))
                       THEN [st1 EXCEPT
                               !.finaldist = totaldist,
                               !.finalpath = st1.paths[1][w]
                                             \o Tail(Reverse(st1.paths[2][w]))]
                       ELSE st1
            IN  relax(G, field, st2, dir, v, Tail(ws))
          ELSE relax(G, field, st, dir, v, Tail(ws))

RECURSIVE search(_, _, _)
search(G, field, st) ==
    IF st.fringe[1] = <<>> \/ st.fringe[2] = <<>>
    THEN [st EXCEPT !.status = "NetworkXNoPath"]
    ELSE
      LET dir == 3 - st.dir
          popped == heappop(st.fringe[dir])
          v == popped.item.v
          st1 == [st EXCEPT !.dir = dir, !.fringe[dir] = popped.heap]
      IN  IF Has(st1.dists[dir], v) THEN search(G, field, st1)
          ELSE
            LET st2 == [st1 EXCEPT !.dists[dir] = Put(@, v, popped.item.d)]
            IN  IF Has(st2.dists[3 - dir], v)
                THEN [st2 EXCEPT !.status = "found"]
                ELSE LET st3 == relax(G, field, st2, dir, v, neighs(G, dir, v))
                     IN  IF st3.status # "run" THEN st3 ELSE search(G, field, st3)

bidirectional_dijkstra(G, source, target, field) ==
    search(G, field,
           [status |-> "run", dir |-> 2, c |-> 2,
            dists |-> << <<>>, <<>> >>,
            paths |-> << (source :> <<source>>), (target :> <<target>>) >>,
            fringe |-> << <<[d |-> F(0), c |-> 0, v |-> source]>>,
                          <<[d |-> F(0), c |-> 1, v |-> target]>> >>,
            seen |-> << (source :> F(0)), (target :> F(0)) >>,
            finaldist |-> F(0), finalpath |-> <<>>])

shortest_path_unchecked(G, source, target, field) ==
    IF source = target THEN [status |-> "found", path |-> <<source>>]
    ELSE LET st == bidirectional_dijkstra(G, source, target, field)
         IN  [status |-> st.status,
              path |-> IF st.status = "found" THEN st.finalpath ELSE <<>>]

\* [status, path]: status is "found" or the name of the exception raised
shortest_path(G, source, target, field) ==
    IF source \notin G.nodes \/ target \notin G.nodes
    THEN [status |-> "NodeNotFound", path |-> <<>>]
    ELSE IF source = target THEN [status |-> "found", path |-> <<source>>]
    ELSE LET st == bidirectional_dijkstra(G, source, target, field)
         IN  [status |-> st.status,
              path |-> IF st.status = "found" THEN st.finalpath ELSE <<>>]

----------------------------------------------------------------------------
(* shapely.ops.linemerge on line strings given by their two end points:    *)
(* lines that meet end to end are joined, whatever their direction; the    *)
(* result is one LineString when everything joins into a single line, and  *)
(* a MultiLineString of the joined pieces otherwise.  No error is raised.  *)

EndPoints(lines) == UNION {{lines[i][1], lines[i][2]} : i \in 1..Len(lines)}

Degree(lines, p) ==
    Cardinality({i \in 1..Len(lines) : lines[i][1] = p})
        + Cardinality({i \in 1..Len(lines) : lines[i][2] = p})

RECURSIVE Touched(_, _)
Touched(lines, pts) ==
    LET more == pts \cup UNION {{lines[i][1], lines[i][2]} :
                    i \in {j \in 1..Len(lines) : lines[j][1] \in pts \/ lines[j][2] \in pts}}
    IN  IF more = pts THEN pts ELSE Touched(lines, more)

SingleLine(lines) ==
    /\ lines # <<>>
    /\ Touched(lines, {lines[1][1]}) = EndPoints(lines)
    /\ \A p \in EndPoints(lines) : Degree(lines, p) <= 2

linemerge(lines) ==
    [type |-> IF lines = <<>> THEN "GeometryCollection"
              ELSE IF SingleLine(lines) THEN "LineString" ELSE "MultiLineString",
     lines |-> lines]

----------------------------------------------------------------------------
(* green_routing.py: GreenRouting *)

NoLine == [type |-> "none", lines |-> <<>>]

\* the route file before save_route has written it
NoRoute == [weight |-> NaN, length |-> NaN, geometry |-> NoLine]

\* __init__: the routing object is constructed with the user's input once the
\* edge file is there; source and target 0 stand for an id that is no node
GreenRouting(source, target, field) ==
    /\ pc = "greendex_saved"
    /\ user_input' = [routing_source |-> source, routing_target |-> target,
                      routing_weight |-> field]
    /\ pc' = "constructed"
    /\ UNCHANGED <<gdf, edges_file, graph, edges, path, edge_pairs, ordered_edges,
                   route_edges_gdf, route_line, route_file, error>>
    /\ UNCHANGED <<vector_vars, program_vars>>

create_route_lenient ==
    /\ pc = "graph_built"
    /\ LET r == shortest_path(graph, user_input.routing_source,
                              user_input.routing_target, user_input.routing_weight)
       IN  /\ path' = r.path
           /\ error' = IF r.status = "found" THEN error ELSE r.status
           /\ pc' = "path_found"
    /\ UNCHANGED <<gdf, edges_file, user_input, graph, edges, edge_pairs,
                   ordered_edges, route_edges_gdf, route_line, route_file>>
    /\ UNCHANGED <<vector_vars, program_vars>>

create_route ==
    /\ pc = "graph_built"
    /\ LET r == shortest_path(graph, user_input.routing_source,
                              user_input.routing_target, user_input.routing_weight)
       IN  IF r.status = "found"
           THEN /\ path' = r.path
                /\ pc' = "path_found"
                /\ UNCHANGED error
           ELSE /\ error' = r.status
                /\ pc' = "failed"
                /\ UNCHANGED path
    /\ UNCHANGED <<gdf, edges_file, user_input, graph, edges, edge_pairs,
                   ordered_edges, route_edges_gdf, route_line, route_file>>
    /\ UNCHANGED <<vector_vars, program_vars>>

\* list(zip(path[:-1], path[1:]))
zip_pairs(p) == [i \in 1..(Len(p) - 1) |-> <<p[i], p[i + 1]>>]

create_edgepairs ==
    /\ pc = "path_found"
    /\ edge_pairs' = zip_pairs(path)
    /\ pc' = "edgepairs_created"
    /\ UNCHANGED <<gdf, edges_file, user_input, graph, edges, path, ordered_edges,
                   route_edges_gdf, route_line, route_file, error>>
    /\ UNCHANGED <<vector_vars, program_vars>>

match_rows_from(t, u, v) ==
    LET Same(r) == r.u = u IN SelectSeq(t, Same)

\* self.edges[(self.edges["u"] == u) & (self.edges["v"] == v)]
match_rows(t, u, v) ==
    LET Same(r) == r.u = u /\ r.v = v IN SelectSeq(t, Same)

\* match.iloc[0]
iloc_first(m) == m[1]

retrieve_edges ==
    /\ pc = "edgepairs_created"
    /\ IF \A i \in 1..Len(edge_pairs) :
               match_rows(edges, edge_pairs[i][1], edge_pairs[i][2]) # <<>>
       THEN /\ ordered_edges' =
                   [i \in 1..Len(edge_pairs) |->
                       iloc_first(match_rows(edges, edge_pairs[i][1], edge_pairs[i][2]))]
            /\ pc' = "edges_retrieved"
            /\ UNCHANGED error
       ELSE /\ error' = "IndexError"
            /\ pc' = "failed"
            /\ UNCHANGED ordered_edges
    /\ UNCHANGED <<gdf, edges_file, user_input, graph, edges, path, edge_pairs,
                   route_edges_gdf, route_line, route_file>>
    /\ UNCHANGED <<vector_vars, program_vars>>

\* gpd.GeoDataFrame(self.ordered_edges, crs=...): an empty list gives a frame
\* without a geometry column, which geopandas either rejects here (a crs
\* without a geometry column) or accepts, depending on its version
convert_edges ==
    /\ pc = "edges_retrieved"
    /\ \E rejects \in BOOLEAN :
          IF ordered_edges = <<>> /\ rejects
          THEN /\ error' = "ValueError"
               /\ pc' = "failed"
               /\ UNCHANGED route_edges_gdf
          ELSE /\ route_edges_gdf' = ordered_edges
               /\ pc' = "edges_converted"
               /\ UNCHANGED error
    /\ UNCHANGED <<gdf, edges_file, user_input, graph, edges, path, edge_pairs,
                   ordered_edges, route_line, route_file>>
    /\ UNCHANGED <<vector_vars, program_vars>>

\* linemerge(self.route_edges_gdf.geometry.tolist()); a frame without a
\* geometry column has no .geometry
merge_edges ==
    /\ pc = "edges_converted"
    /\ IF route_edges_gdf = <<>>
       THEN /\ error' = "AttributeError"
            /\ pc' = "failed"
            /\ UNCHANGED route_line
       ELSE /\ route_line' = linemerge(Column(route_edges_gdf, "geometry"))
            /\ pc' = "edges_merged"
            /\ UNCHANGED error
    /\ UNCHANGED <<gdf, edges_file, user_input, graph, edges, path, edge_pairs,
                   ordered_edges, route_edges_gdf, route_file>>
    /\ UNCHANGED <<vector_vars, program_vars>>

RECURSIVE SeqSum(_)
SeqSum(s) ==
    IF s = <<>> THEN F(0)
    ELSE FAdd(IF IsNaN(Head(s)) THEN F(0) ELSE Head(s), SeqSum(Tail(s)))

\* Series.sum(): missing values are skipped (skipna=True)
series_sum(s) == SeqSum(s)

save_route ==
    /\ pc = "edges_merged"
    /\ route_file' = [weight |-> series_sum(Column(route_edges_gdf, "weight")),
                      length |-> series_sum(Column(route_edges_gdf, "length")),
                      geometry |-> route_line]
    /\ pc' = "route_saved"
    /\ UNCHANGED <<gdf, edges_file, user_input, graph, edges, path, edge_pairs,
                   ordered_edges, route_edges_gdf, route_line, error>>
    /\ UNCHANGED <<vector_vars, program_vars>>

\* run_routing: create_graph -> create_route -> create_edgepairs ->
\* retrieve_edges -> convert_edges -> merge_edges -> save_route, each started
\* when the one before it returned; an exception ends the run
run_routing ==
    \/ create_graph
    \/ create_route
    \/ create_edgepairs
    \/ retrieve_edges
    \/ convert_edges
    \/ merge_edges
    \/ save_route

----------------------------------------------------------------------------
(* utils/geometry.py: the functions on vector tables.  A GeoDataFrame is a  *)
(* record of its crs, its column names and its rows (a row is a function    *)
(* from the column names to values).  A geometry is a null geometry, an     *)
(* invalid one, or a polygon given by the set of unit cells of a line that  *)
(* it covers: cell c is the stretch from c-1 to c, so that cells c and c+1  *)
(* touch, the area of a polygon is its number of cells, and a buffer of     *)
(* distance d adds the d cells on either side of every cell.                *)

MaxFeatures == 2    \* rows of a vector table
MaxCell == 2        \* cells that the polygons of an input table cover
MaxDistance == 1    \* largest buffer distance

NoTable == [crs |-> "none", columns |-> {}, rows |-> <<>>]

\* the output path before anything is written to it
NoOutput == [crs |-> "no file", columns |-> {}, rows |-> <<>>]

NullGeometry == [kind |-> "null", cells |-> {}]

InvalidGeometry == [kind |-> "invalid", cells |-> {}]

Polygon(cells) == [kind |-> "polygon", cells |-> cells]

\* gdf.empty
empty(table) == table.rows = <<>>

\* gdf.geometry.notnull().all()
notnull_all(table) ==
    \A i \in 1..Len(table.rows) : table.rows[i].geometry.kind # "null"

\* gdf.geometry.is_valid.all(): a null geometry is not valid either
is_valid_all(table) ==
    \A i \in 1..Len(table.rows) : table.rows[i].geometry.kind = "polygon"

\* gdf[name] = values, on a table: a new column, or new values of the column
set_column(table, name, values) ==
    [crs |-> table.crs,
     columns |-> table.columns \cup {name},
     rows |-> [i \in 1..Len(table.rows) |-> (name :> values[i]) @@ table.rows[i]]]

\* what a call did: the exception raised ("none" if it returned), the table
\* returned, whether that is the caller's table object, the file written,
\* and the caller's table as the call left it
Raised(after, message) ==
    [error |-> message, result |-> NoTable, aliased |-> FALSE,
     file |-> NoOutput, after |-> after]

Returned(after, res, same, file) ==
    [error |-> "none", result |-> res, aliased |-> same,
     file |-> file, after |-> after]

add_id_from_zero(table) ==
    LET out == set_column(table, "id", [i \in 1..Len(table.rows) |-> i - 1])
    IN  Returned(table, out, FALSE, out)

\* add_id(gdf, id_vector_path): the column is set on a copy of the table;
\* the copy is written to id_vector_path and returned
add_id(table) ==
    LET out == set_column(table, "id", [i \in 1..Len(table.rows) |-> i])
    IN  Returned(table, out, FALSE, out)

\* geometry.buffer(distance)
buffer(g, distance) ==
    [g EXCEPT !.cells = {c + k : c \in g.cells, k \in (0 - distance)..distance}]

buffer_vector_empty_first(table, distance) ==
    IF empty(table) THEN Returned(table, table, FALSE, NoOutput)
    ELSE IF distance <= 0 THEN Raised(table, "Invalid buffer distance")
    ELSE IF ~notnull_all(table) THEN Raised(table, "Input contains null geometries")
    ELSE IF ~is_valid_all(table) THEN Raised(table, "Input contains invalid geometries")
    ELSE Returned(table,
                  set_column(table, "geometry",
                             [i \in 1..Len(table.rows) |->
                                 buffer(table.rows[i].geometry, distance)]),
                  FALSE, NoOutput)

\* the geometries of a copy of the table are replaced by their buffers
buffer_vector(table, distance) ==
    IF distance <= 0 THEN Raised(table, "Invalid buffer distance")
    ELSE IF empty(table) THEN Returned(table, table, FALSE, NoOutput)
    ELSE IF ~notnull_all(table) THEN Raised(table, "Input contains null geometries")
    ELSE IF ~is_valid_all(table) THEN Raised(table, "Input contains invalid geometries")
    ELSE Returned(table,
                  set_column(table, "geometry",
                             [i \in 1..Len(table.rows) |->
                                 buffer(table.rows[i].geometry, distance)]),
                  FALSE, NoOutput)

\* the cells covered by some geometry of the table (the union of a mask)
union_all(table) == UNION {table.rows[i].geometry.cells : i \in 1..Len(table.rows)}

\* predicate "intersects": a common cell, or cells that touch
intersects(g, cells) ==
    \E c \in g.cells, m \in cells : c - m \in {-1, 0, 1}

\* the positions of the rows that intersect the mask, in row order
hits(table, mask) ==
    LET Hit(i) == intersects(table.rows[i].geometry, union_all(mask))
    IN  SelectSeq([i \in 1..Len(table.rows) |-> i], Hit)

\* the orders in which the spatial index may report the rows it found
\* (sort=False does not fix the order)
Orders(table, mask) == Permutations(1..Len(hits(table, mask)))

clip_keep(table, mask, order) ==
    IF empty(table) THEN [table EXCEPT !.rows = <<>>]
    ELSE IF empty(mask) THEN table
    ELSE LET found == hits(table, mask)
         IN  [table EXCEPT !.rows =
                 [k \in 1..Len(found) |->
                     [table.rows[found[order[k]]] EXCEPT
                         !.geometry.cells = @ \cap union_all(mask)]]]

\* gpd.clip(gdf, mask, keep_geom_type=False, sort=False): no rows when the
\* bounds of the two tables do not meet (as with an empty table, whose bounds
\* are nan); otherwise the rows that intersect the mask, each cut to the mask
clip(table, mask, order) ==
    IF empty(table) \/ empty(mask) THEN [table EXCEPT !.rows = <<>>]
    ELSE LET found == hits(table, mask)
         IN  [table EXCEPT !.rows =
                 [k \in 1..Len(found) |->
                     [table.rows[found[order[k]]] EXCEPT
                         !.geometry.cells = @ \cap union_all(mask)]]]

clipping_vectors_geometry_first(input_vector, mask_vector, order) ==
    IF ~notnull_all(input_vector)
    THEN Raised(input_vector, "Input contains null geometries")
    ELSE IF ~notnull_all(mask_vector)
    THEN Raised(input_vector, "Mask contains null geometries")
    ELSE IF ~is_valid_all(input_vector)
    THEN Raised(input_vector, "Input contains invalid geometries")
    ELSE IF ~is_valid_all(mask_vector)
    THEN Raised(input_vector, "Mask contains invalid geometries")
    ELSE IF input_vector.crs # mask_vector.crs
    THEN Raised(input_vector, "Input and mask CRS must match")
    ELSE LET clipped == clip(input_vector, mask_vector, order)
         IN  Returned(input_vector, NoTable, FALSE, clipped)

\* clipping_vectors(input_vector, mask_vector, output_vector_path): returns
\* None; the clipped table is written to the output path
clipping_vectors(input_vector, mask_vector, order) ==
    IF input_vector.crs # mask_vector.crs
    THEN Raised(input_vector, "Input and mask CRS must match")
    ELSE IF ~notnull_all(input_vector)
    THEN Raised(input_vector, "Input contains null geometries")
    ELSE IF ~notnull_all(mask_vector)
    THEN Raised(input_vector, "Mask contains null geometries")
    ELSE IF ~is_valid_all(input_vector)
    THEN Raised(input_vector, "Input contains invalid geometries")
    ELSE IF ~is_valid_all(mask_vector)
    THEN Raised(input_vector, "Mask contains invalid geometries")
    ELSE LET clipped == clip(input_vector, mask_vector, order)
         IN  Returned(input_vector, NoTable, FALSE, clipped)

\* geometry.area
geometry_area(g) == F(Cardinality(g.cells))

\* the column 'area' is set on a copy of the table
calculate_area(table) ==
    IF ~notnull_all(table) THEN Raised(table, "Input contains null geometries")
    ELSE IF ~is_valid_all(table) THEN Raised(table, "Input contains invalid geometries")
    ELSE Returned(table,
                  set_column(table, "area",
                             [i \in 1..Len(table.rows) |->
                                 fillna(geometry_area(table.rows[i].geometry), F(0))]),
                  FALSE, NoOutput)

\* a row of the merge: the left row with the area of the right row; both
\* tables having a column 'area', the left one is renamed area_x and the
\* right one area_y
merged_row(left, columns, area) ==
    IF "area" \in columns
    THEN ("area_x" :> left.area) @@ ("area_y" :> area)
            @@ [c \in (DOMAIN left) \ {"area"} |-> left[c]]
    ELSE ("area" :> area) @@ left

merged_columns(columns) ==
    IF "area" \in columns
    THEN (columns \ {"area"}) \cup {"area_x", "area_y"}
    ELSE columns \cup {"area"}

\* the rows of the right table with the id of the left row, in right order
matches(left, right) ==
    LET Same(r) == r.id = left.id IN SelectSeq(right, Same)

RECURSIVE inner_rows(_, _, _, _)
inner_rows(left, right, columns, i) ==
    IF i > Len(left) THEN <<>>
    ELSE LET found == matches(left[i], right)
         IN  [k \in 1..Len(found) |-> merged_row(left[i], columns, found[k].area)]
                \o inner_rows(left, right, columns, i + 1)

\* how='left': every left row in left order, once for every right row of the
\* same id, and once with a missing area when there is none
RECURSIVE left_rows(_, _, _, _)
left_rows(left, right, columns, i) ==
    IF i > Len(left) THEN <<>>
    ELSE LET found == matches(left[i], right)
         IN  (IF found = <<>> THEN <<merged_row(left[i], columns, NaN)>>
              ELSE [k \in 1..Len(found) |->
                       merged_row(left[i], columns, found[k].area)])
                \o left_rows(left, right, columns, i + 1)

merge_inner(table, join) ==
    [crs |-> table.crs, columns |-> merged_columns(table.columns),
     rows |-> inner_rows(table.rows, join.rows, table.columns, 1)]

\* gdf.merge(join[['id','area']], on='id', how='left')
merge_left(table, join) ==
    [crs |-> table.crs, columns |-> merged_columns(table.columns),
     rows |-> left_rows(table.rows, join.rows, table.columns, 1)]

join_by_attribute(table, join) ==
    IF "id" \notin table.columns
    THEN Raised(table, "ID field is missing in input layer: add 'id'")
    ELSE IF "id" \notin join.columns
    THEN Raised(table, "ID field is missing in join layer: add 'id'")
    ELSE IF "area" \notin join.columns
    THEN Raised(table, "KeyError")
    ELSE Returned(table, merge_left(table, join), FALSE, NoOutput)

\* calculate_greendex(gdf) on a table: the columns are set on the table it is
\* given, and that table is what it returns
greendex_table(table) ==
    LET out == [crs |-> table.crs,
                columns |-> table.columns \cup {"greendex", "weight"},
                rows |-> calculate_greendex(table.rows)]
    IN  Returned(out, out, TRUE, NoOutput)

----------------------------------------------------------------------------
(* One call of a utils/geometry.py function *)

NoCall == [function |-> "none", gdf |-> NoTable, other |-> NoTable, distance |-> 0]

NotCalled ==
    /\ call = NoCall
    /\ caller_gdf = NoTable
    /\ result = NoTable
    /\ aliased = FALSE
    /\ output_vector = NoOutput

----------------------------------------------------------------------------
(* File names.  Every program of the pipeline builds the names of the files *)
(* it reads and writes from UserInput.aoi_name by str.format and f-strings, *)
(* and get_data_folder gives every run the same raw and the same processed  *)
(* folder.  A file is its folder, its name and how the program opens it.    *)

Runs == {1, 2}

File(folder, name, mode) == [folder |-> folder, name |-> name, mode |-> mode]

\* reproject_layers.py: LAYERS, input and output of each layer
reproject_files(aoi) ==
    {File("raw", aoi \o ".tif", "read"),
     File("raw", aoi \o "_reprojected.tif", "write"),
     File("raw", aoi \o "_tree_mask.tif", "read"),
     File("raw", aoi \o "_tree_mask_reprojected.tif", "write"),
     File("raw", aoi \o "_edges.gpkg", "read"),
     File("raw", aoi \o "_edges_reprojected.gpkg", "write")}

\* process_vectors.py: the paths of the five stage methods
process_vectors_files(aoi) ==
    {File("raw", aoi \o "_tree_mask_reprojected.tif", "read"),
     File("raw", aoi \o "_tree_mask_polygons_reproj.gpkg", "write"),
     File("raw", aoi \o "_tree_mask_polygons_reproj.gpkg", "read"),
     File("raw", aoi \o "_tree_buffer_polygons_reproj.gpkg", "write"),
     File("raw", aoi \o "_edges_reprojected.gpkg", "read"),
     File("raw", aoi \o "_edges_id_reprojected.gpkg", "write"),
     File("raw", aoi \o "_edges_buffer_reproj.gpkg", "write"),
     File("raw", aoi \o "_edges_buffer_reproj.gpkg", "read"),
     File("raw", aoi \o "_tree_buffer_polygons_reproj.gpkg", "read"),
     File("raw", aoi \o "_edges_buffer_clipped.gpkg", "write"),
     File("raw", aoi \o "_edges_buffer_clipped.gpkg", "read"),
     File("raw", aoi \o "_edges_id_reprojected.gpkg", "read"),
     File("raw", aoi \o "_edges_greendex.gpkg", "write")}

\* green_routing.py: create_graph reads, save_route writes
green_routing_files(aoi, weight) ==
    {File("raw", aoi \o "_nodes.gpkg", "read"),
     File("raw", aoi \o "_edges_greendex.gpkg", "read"),
     File("processed", aoi \o "_route_" \o weight \o ".gpkg", "write")}

\* a run goes through the three programs in this order
Programs == <<"reproject_layers", "process_vectors", "green_routing">>

Finished(run, program, files) ==
    /\ pc = "running"
    /\ Len(programs[run]) < Len(Programs)
    /\ Programs[Len(programs[run]) + 1] = program
    /\ programs' = [programs EXCEPT ![run] = Append(@, program)]
    /\ opened' = [opened EXCEPT ![run] = @ \cup files]
    /\ UNCHANGED <<pc, error, aoi_name>>
    /\ UNCHANGED <<routing_vars, vector_vars, tile_vars, pipeline_vars>>

\* ReprojectLayers(user_input, dst_crs, raw_folder).reproject_layers()
reproject_layers(run) ==
    /\ programs[run] = <<>>
    /\ Finished(run, "reproject_layers", reproject_files(aoi_name[run]))

\* ProcessVectors(user_input, raw_folder).process_vectors(overwrite=False),
\* every stage run
vector_processing(run) ==
    /\ programs[run] = <<"reproject_layers">>
    /\ Finished(run, "process_vectors", process_vectors_files(aoi_name[run]))

\* GreenRouting(user_input, raw_folder, processed_folder).run_routing()
routing(run, weight) ==
    /\ Len(programs[run]) = 2
    /\ Finished(run, "green_routing", green_routing_files(aoi_name[run], weight))

NoRuns ==
    /\ aoi_name = [run \in Runs |-> ""]
    /\ programs = [run \in Runs |-> <<>>]
    /\ opened = [run \in Runs |-> {}]

----------------------------------------------------------------------------
(* utils/geometry.py: raster_to_vector.  The band of a raster is a row of   *)
(* pixels; pixel c is the cell c of the line the polygons lie on.           *)

MaxPixels == 3      \* pixels of a raster band

NoRaster == [crs |-> "none", band |-> <<>>]

\* the end of the run of equal pixels that starts at pixel i
RECURSIVE RunEnd(_, _)
RunEnd(band, i) ==
    IF i < Len(band) /\ band[i + 1] = band[i] THEN RunEnd(band, i + 1) ELSE i

\* rasterio.features.shapes(band): a (geometry, value) pair for every
\* connected region of pixels of one value
RECURSIVE shapes(_, _)
shapes(band, i) ==
    IF i > Len(band) THEN <<>>
    ELSE <<[geometry |-> Polygon(i..RunEnd(band, i)), value |-> band[i]]>>
            \o shapes(band, RunEnd(band, i) + 1)

raster_to_vector_nonzero(src) ==
    LET Foreground(f) == f.value # 0
        features == SelectSeq(shapes(src.band, 1), Foreground)
    IN  IF features = <<>>
        THEN Raised(NoTable, "No foreground pixels (value=255) found in raster")
        ELSE Returned(NoTable, NoTable, FALSE,
                      [crs |-> src.crs, columns |-> {"geometry", "value"},
                       rows |-> features])

\* raster_to_vector(input_raster_path, output_vector_path): returns None; the
\* regions of value 255 are written to the output path
raster_to_vector(src) ==
    LET Foreground(f) == f.value = 255
        features == SelectSeq(shapes(src.band, 1), Foreground)
    IN  IF features = <<>>
        THEN Raised(NoTable, "No foreground pixels (value=255) found in raster")
        ELSE Returned(NoTable, NoTable, FALSE,
                      [crs |-> src.crs, columns |-> {"geometry", "value"},
                       rows |-> features])

----------------------------------------------------------------------------
(* utils/inputs.py: UserInput, and utils/geometry.py: tile_calculator *)

\* None, as the value of a field that holds a float otherwise
None == [k |-> "none", n |-> 0, d |-> 1]

\* the dataclass UserInput: the generated __init__ assigns the fields it is
\* given; there is no __post_init__
new_UserInput(name, sw_lat, sw_lon, ne_lat, ne_lon, res, source, target, weight) ==
    [aoi_name |-> name, sw_lat |-> sw_lat, sw_lon |-> sw_lon,
     ne_lat |-> ne_lat, ne_lon |-> ne_lon, resolution |-> res,
     routing_source |-> source, routing_target |-> target,
     routing_weight |-> weight]

MaxTile == 2500     \* largest width and height of a tile, in pixels

NoBox == [xmin |-> NaN, ymin |-> NaN, xmax |-> NaN, ymax |-> NaN]

\* int(round(x)) of a float: the nearest integer, ties to the even one;
\* round() of nan is a ValueError and of an infinity an OverflowError
int_round(x) ==
    IF IsNaN(x) THEN [error |-> "cannot convert float NaN to integer", value |-> 0]
    ELSE IF ~IsNum(x)
    THEN [error |-> "cannot convert float infinity to integer", value |-> 0]
    ELSE [error |-> "none", value |-> RoundHalfEven(x.n, x.d)]

\* what a call of tile_calculator did: the exception ("none" if it returned)
\* and the (width, height) returned
TileRaised(message) == [error |-> message, tile |-> <<0, 0>>]

tile_calculator_clamped(bbox, res) ==
    IF res.n = 0 THEN TileRaised("float division by zero")
    ELSE LET width == int_round(FDiv(FSub(bbox.xmax, bbox.xmin), res))
             height == int_round(FDiv(FSub(bbox.ymax, bbox.ymin), res))
             Clamp(i) == IF i > MaxTile THEN MaxTile ELSE i
         IN  IF width.error # "none" THEN TileRaised(width.error)
             ELSE IF height.error # "none" THEN TileRaised(height.error)
             ELSE IF width.value < 1 \/ height.value < 1
             THEN TileRaised("Width and height (pixel count) must be >= 1. Width: "
                                \o ToString(width.value) \o ", height: "
                                \o ToString(height.value))
             ELSE [error |-> "none",
                   tile |-> <<Clamp(width.value), Clamp(height.value)>>]

\* tile_calculator(bbox_mercator, resolution); a float division by 0.0 is a
\* ZeroDivisionError
tile_calculator(bbox, res) ==
    IF res.n = 0 THEN TileRaised("float division by zero")
    ELSE LET width == int_round(FDiv(FSub(bbox.xmax, bbox.xmin), res))
             height == int_round(FDiv(FSub(bbox.ymax, bbox.ymin), res))
         IN  IF width.error # "none" THEN TileRaised(width.error)
             ELSE IF height.error # "none" THEN TileRaised(height.error)
             ELSE IF width.value < 1 \/ height.value < 1
             THEN TileRaised("Width and height (pixel count) must be >= 1. Width: "
                                \o ToString(width.value) \o ", height: "
                                \o ToString(height.value))
             ELSE IF width.value > MaxTile \/ height.value > MaxTile
             THEN TileRaised("Tile size too large: maximum allowed is 2500x2500 pixels. Width: "
                                \o ToString(width.value) \o ", height: "
                                \o ToString(height.value))
             ELSE [error |-> "none", tile |-> <<width.value, height.value>>]

----------------------------------------------------------------------------
(* process_vectors.py: ProcessVectors.  The vector files of the raw folder  *)
(* are named by their suffix after the AOI name; disk gives the table each  *)
(* of them holds (NoOutput if the file does not exist).  Lengths are        *)
(* counted in cells of half a metre, so that the two buffer distances, 1    *)
(* and 2.5 metres, are whole numbers of cells.                              *)

polygons_path == "_tree_mask_polygons_reproj.gpkg"

tree_buffer_path == "_tree_buffer_polygons_reproj.gpkg"

edges_reprojected_path == "_edges_reprojected.gpkg"

id_vector_path == "_edges_id_reprojected.gpkg"

edges_buffer_path == "_edges_buffer_reproj.gpkg"

edges_clipped_path == "_edges_buffer_clipped.gpkg"

areas_calculated_path == "_edges_greendex.gpkg"

VectorPaths == {polygons_path, tree_buffer_path, edges_reprojected_path,
                id_vector_path, edges_buffer_path, edges_clipped_path,
                areas_calculated_path}

NoDisk == [p \in VectorPaths |-> NoOutput]

CellsPerMetre == 2

\* buffer_vector, distance = 1
TreeBufferDistance == 1 * CellsPerMetre

\* buffer_vector, 2.5
RoadBufferDistance == (25 * CellsPerMetre) \div 10

\* path.exists()
exists(d, p) == d[p] # NoOutput

\* gpd.read_file(path): the table of the file; a file that is not there is
\* an error of the driver
read_file(d, p) ==
    IF exists(d, p) THEN [error |-> "none", table |-> d[p]]
    ELSE [error |-> p \o ": No such file or directory", table |-> NoTable]

\* table.to_file(path, driver="GPKG")
to_file(d, p, table) == [d EXCEPT ![p] = table]

\* what a stage method did: the exception that left it ("none" if it
\* returned) and the files as it left them
Stopped(d, message) == [error |-> message, disk |-> d]

Done(d) == [error |-> "none", disk |-> d]

extract_tree_polygons(d, src) ==
    LET out == raster_to_vector(src)
    IN  IF out.error # "none" THEN Stopped(d, out.error)
        ELSE Done(to_file(d, polygons_path, out.file))

tree_buffer(d) ==
    LET input == read_file(d, polygons_path)
        out == buffer_vector(input.table, TreeBufferDistance)
    IN  IF input.error # "none" THEN Stopped(d, input.error)
        ELSE IF out.error # "none" THEN Stopped(d, out.error)
        ELSE Done(to_file(d, tree_buffer_path, out.result))

\* .pipe(add_id, id_vector_path) has written the id file when
\* .pipe(buffer_vector, 2.5) starts
road_buffer(d) ==
    LET input == read_file(d, edges_reprojected_path)
        ids == add_id(input.table)
        with_ids == to_file(d, id_vector_path, ids.file)
        out == buffer_vector(ids.result, RoadBufferDistance)
    IN  IF input.error # "none" THEN Stopped(d, input.error)
        ELSE IF out.error # "none" THEN Stopped(with_ids, out.error)
        ELSE Done(to_file(with_ids, edges_buffer_path, out.result))

clip_roads(d, order) ==
    LET input_vector == read_file(d, edges_buffer_path)
        mask_vector == read_file(d, tree_buffer_path)
        out == clipping_vectors(input_vector.table, mask_vector.table, order)
    IN  IF input_vector.error # "none" THEN Stopped(d, input_vector.error)
        ELSE IF mask_vector.error # "none" THEN Stopped(d, mask_vector.error)
        ELSE IF out.error # "none" THEN Stopped(d, out.error)
        ELSE Done(to_file(d, edges_clipped_path, out.file))

\* calculate_greendex needs the columns length, area_x and area_y
greendex_of(table) ==
    IF {"length", "area_x", "area_y"} \subseteq table.columns
    THEN greendex_table(table)
    ELSE Raised(table, "KeyError")

\* ProcessVectors.calculate_areas, from the files on
calculate_areas_of(d) ==
    LET buffers == read_file(d, edges_buffer_path)
        road_buffer_area == calculate_area(buffers.table)
        clipped == read_file(d, edges_clipped_path)
        road_clip_area == calculate_area(clipped.table)
        ids == read_file(d, id_vector_path)
        first == join_by_attribute(ids.table, road_buffer_area.result)
        second == join_by_attribute(first.result, road_clip_area.result)
        out == greendex_of(second.result)
    IN  IF buffers.error # "none" THEN Stopped(d, buffers.error)
        ELSE IF road_buffer_area.error # "none" THEN Stopped(d, road_buffer_area.error)
        ELSE IF clipped.error # "none" THEN Stopped(d, clipped.error)
        ELSE IF road_clip_area.error # "none" THEN Stopped(d, road_clip_area.error)
        ELSE IF ids.error # "none" THEN Stopped(d, ids.error)
        ELSE IF first.error # "none" THEN Stopped(d, first.error)
        ELSE IF second.error # "none" THEN Stopped(d, second.error)
        ELSE IF out.error # "none" THEN Stopped(d, out.error)
        ELSE Done(to_file(d, areas_calculated_path, out.result))

\* process_vectors: the stage methods in the order of their _process_step
\* calls, and the path each call is given
Methods == <<"extract_tree_polygons", "tree_buffer", "road_buffer",
             "clip_roads", "calculate_areas">>

StagePaths == <<polygons_path, tree_buffer_path, edges_buffer_path,
                edges_clipped_path, areas_calculated_path>>

method(k, d, src, order) ==
    CASE k = 1 -> extract_tree_polygons(d, src)
      [] k = 2 -> tree_buffer(d)
      [] k = 3 -> road_buffer(d)
      [] k = 4 -> clip_roads(d, order)
      [] k = 5 -> calculate_areas_of(d)

\* the orders in which gpd.clip may return the rows, for the stage that clips
StageOrders(k, d) ==
    IF k = 4 THEN Orders(d[edges_buffer_path], d[tree_buffer_path]) ELSE {<<>>}

NoError == [type |-> "none", message |-> ""]

handle_errors_all(name, e) ==
    [type |-> "RuntimeError", message |-> name \o " failed: " \o e]

\* handle_errors: a MemoryError is raised again, any other exception e is
\* replaced by RuntimeError(f"{method.__name__} failed: {e}")
handle_errors(name, e) ==
    IF e = "MemoryError" THEN [type |-> "MemoryError", message |-> ""]
    ELSE [type |-> "RuntimeError", message |-> name \o " failed: " \o e]

skipped_if_exists(d, p, force) == exists(d, p)

\* _process_step: if path.exists() and not overwrite
skipped(d, p, force) == exists(d, p) /\ ~force

MaxRuns == 2        \* calls of process_vectors, one after the other

\* process_vectors(overwrite) is called
process_vectors(force) ==
    /\ pc \in {"idle", "done"}
    /\ runs < MaxRuns
    /\ runs' = runs + 1
    /\ overwrite' = force
    /\ stage' = 1
    /\ executed' = <<>>
    /\ raised' = NoError
    /\ error' = "none"
    /\ pc' = "running"
    /\ UNCHANGED <<raster, disk>>
    /\ UNCHANGED <<routing_vars, vector_vars, folder_vars, tile_vars>>

\* one self._process_step(path, method, step_name, overwrite) of the run; a
\* stage method may run out of memory whatever it is given
process_step ==
    /\ pc = "running"
    /\ IF skipped(disk, StagePaths[stage], overwrite)
       THEN /\ stage' = stage + 1
            /\ pc' = IF stage = Len(Methods) THEN "done" ELSE "running"
            /\ UNCHANGED <<disk, executed, raised, error>>
       ELSE \E memory \in BOOLEAN, order \in StageOrders(stage, disk) :
               LET out == IF memory THEN Stopped(disk, "MemoryError")
                          ELSE method(stage, disk, raster, order)
               IN  /\ executed' = Append(executed, Methods[stage])
                   /\ disk' = out.disk
                   /\ error' = out.error
                   /\ IF out.error = "none"
                      THEN /\ stage' = stage + 1
                           /\ pc' = IF stage = Len(Methods) THEN "done"
                                    ELSE "running"
                           /\ UNCHANGED raised
                      ELSE /\ raised' = handle_errors(Methods[stage], out.error)
                           /\ pc' = "failed"
                           /\ UNCHANGED stage
    /\ UNCHANGED <<raster, overwrite, runs>>
    /\ UNCHANGED <<routing_vars, vector_vars, folder_vars, tile_vars>>

----------------------------------------------------------------------------
(* The state of the programs that a specification does not run *)

NoTile ==
    /\ bbox_mercator = NoBox
    /\ resolution = NaN
    /\ tile = <<0, 0>>

NotStarted ==
    /\ raster = NoRaster
    /\ disk = NoDisk
    /\ overwrite = FALSE
    /\ stage = 0
    /\ executed = <<>>
    /\ raised = NoError
    /\ runs = 0

----------------------------------------------------------------------------
(* Inputs *)

RoutingPreference == {"length", "weight"}

AreaValues == {F(a) : a \in 0..MaxArea} \cup {NaN}

LengthValues == {F(l) : l \in 1..MaxLen}

\* rows of a joined table whose areas are any non-negative or missing values
GreendexRows ==
    [u : {1}, v : {2}, geometry : {<<1, 2>>},
     length : LengthValues, area_x : AreaValues, area_y : AreaValues]

\* the routing fields of UserInput when none are given: None, None, GREENEST
DefaultInput == [routing_source |-> 0, routing_target |-> 0,
                 routing_weight |-> "weight"]

\* rows of a joined table as calculate_areas gets them: area_x is the area of
\* the road buffer, area_y the area of the part of it inside the tree buffers
RouteRows ==
    {[u |-> a[1], v |-> a[2], geometry |-> a, length |-> l,
      area_x |-> F(MaxArea), area_y |-> F(b)] :
        a \in {p \in Nodes \X Nodes : p[1] # p[2]}, l \in LengthValues, b \in 0..1}

\* row k of the table with a geometry that ends away from its node v
Detach(t, k) == [i \in 1..Len(t) |->
                    IF i = k THEN [t[i] EXCEPT !.geometry = <<t[i].u, 0>>] ELSE t[i]]

\* routing_source and routing_target: a node or an id that is no node (0).
\* The tables range over all arcs between the nodes, so one source node and
\* one other target node stand for every pair of nodes.
Sources == {0, 1}

Targets == {0, 1, MaxNode}

Unused ==
    /\ NoRuns
    /\ NoTile
    /\ NotStarted

Idle ==
    /\ edges_file = NoFile
    /\ user_input = DefaultInput
    /\ graph = EmptyGraph
    /\ edges = <<>>
    /\ path = <<>>
    /\ edge_pairs = <<>>
    /\ ordered_edges = <<>>
    /\ route_edges_gdf = <<>>
    /\ route_line = NoLine
    /\ route_file = NoRoute
    /\ error = "none"
    /\ NotCalled

InitGreendex ==
    /\ pc = "joined"
    /\ \E n \in 0..MaxRows : gdf \in [1..n -> GreendexRows]
    /\ Idle
    /\ Unused

NextGreendex == calculate_areas

\* calculate_greendex applied to every bounded table
SpecGreendex == InitGreendex /\ [][NextGreendex]_vars

Init ==
    /\ pc = "joined"
    /\ \E n \in 0..MaxRows : \E t \in [1..n -> RouteRows] : \E k \in 0..n :
          gdf = Detach(t, k)
    /\ Idle
    /\ Unused

Next ==
    \/ calculate_areas
    \/ \E source \in Sources, target \in Targets, field \in RoutingPreference :
          GreenRouting(source, target, field)
    \/ run_routing

\* process_vectors' last stage followed by a routing run
Spec == Init /\ [][Next]_vars

----------------------------------------------------------------------------
(* Properties of calculate_greendex (checked under SpecGreendex) *)

Scale == Pow10(Decimals)

\* g is a multiple m of 10^-4 that is nearest to b/a, the even m on a tie
IsRounded(g, b, a) ==
    /\ IsNum(g)
    /\ Scale % g.d = 0
    /\ LET m == g.n * (Scale \div g.d)
           num == b.n * a.d
           den == b.d * a.n
           err == Abs(m * den - num * Scale)
       IN  /\ 2 * err <= den
           /\ (2 * err = den) => (m % 2 = 0)

Saved == pc = "greendex_saved"

\* C1: after calculate_greendex a row with area_x = A > 0 and area_y = B <= A
\* has greendex = round(B/A, 4); a row with A = 0 (so B = 0) or with a missing
\* area (no match in the join) has greendex exactly 0.
GreendexRoundTrip ==
    Saved =>
        \A i \in 1..Len(gdf) :
            LET a == gdf[i].area_x
                b == gdf[i].area_y
            IN  /\ (IsNum(a) /\ IsNum(b) /\ a.n > 0 /\ FLe(b, a))
                        => IsRounded(gdf[i].greendex, b, a)
                /\ (IsNum(a) /\ IsNum(b) /\ a.n = 0 /\ FLe(b, a))
                        => gdf[i].greendex = F(0)
                /\ (IsNaN(a) \/ IsNaN(b)) => gdf[i].greendex = F(0)

\* a table with a row of ratio 1/3 (rounded to 0.3333) and a row without a match
GreendexRoundTripWitness ==
    /\ Saved
    /\ \E i, j \in 1..Len(gdf) :
          /\ gdf[i].area_x = F(3) /\ gdf[i].area_y = F(1)
          /\ gdf[i].greendex = Rat(3333, 10000)
          /\ IsNum(gdf[j].area_x) /\ IsNaN(gdf[j].area_y)
          /\ gdf[j].greendex = F(0)

\* C2: after calculate_greendex every greendex is a finite number >= 0, and it
\* is 0 whenever area_x is zero (whatever area_y is) or an area is missing.
GreendexFinite ==
    Saved =>
        \A i \in 1..Len(gdf) :
            LET a == gdf[i].area_x
                b == gdf[i].area_y
            IN  /\ IsNum(gdf[i].greendex)
                /\ gdf[i].greendex.n >= 0
                /\ (IsNaN(a) \/ IsNaN(b) \/ a = F(0)) => gdf[i].greendex = F(0)

AllLengthsEqual(t) ==
    /\ Len(t) > 0
    /\ series_max(Column(t, "length")) = series_min(Column(t, "length"))

\* C3: when every edge of the table has the same length, every row gets a
\* defined numeric weight: no not-a-number weight is written to the edge table.
EqualLengthsDefinedWeight ==
    (Saved /\ AllLengthsEqual(gdf)) =>
        \A i \in 1..Len(edges_file) : IsNum(edges_file[i].weight)

\* C4: every weight written by calculate_greendex is a number >= 0, for every
\* table with non-negative lengths and non-negative (or missing) areas.
WeightNonNegative ==
    Saved => \A i \in 1..Len(edges_file) : FLe(F(0), edges_file[i].weight)

\* C5: of two rows with equal greendex, the one with the larger length never
\* has the smaller weight.
WeightMonotoneInLength ==
    Saved =>
        \A i, j \in 1..Len(gdf) :
            (FEq(gdf[i].greendex, gdf[j].greendex) /\ FLt(gdf[i].length, gdf[j].length))
                => ~FLt(gdf[j].weight, gdf[i].weight)

\* C6: of two rows with equal length, the one with the larger greendex never
\* has the larger weight.
WeightMonotoneInGreendex ==
    Saved =>
        \A i, j \in 1..Len(gdf) :
            (FEq(gdf[i].length, gdf[j].length) /\ FLt(gdf[i].greendex, gdf[j].greendex))
                => ~FLt(gdf[i].weight, gdf[j].weight)

\* two rows of equal length, above the minimum length, whose weights differ
WeightMonotoneInGreendexWitness ==
    /\ Saved
    /\ \E i, j \in 1..Len(gdf) :
          /\ FEq(gdf[i].length, gdf[j].length)
          /\ FLt(gdf[i].greendex, gdf[j].greendex)
          /\ FLt(gdf[j].weight, gdf[i].weight)

----------------------------------------------------------------------------
(* create_edgepairs and retrieve_edges applied to any path and edge table *)

EdgeRows ==
    {[u |-> a[1], v |-> a[2], geometry |-> a, length |-> F(1), weight |-> F(w)] :
        a \in {p \in Nodes \X Nodes : p[1] # p[2]}, w \in 0..1}

InitEdges ==
    /\ pc = "path_found"
    /\ \E n \in 0..MaxRows : edges \in [1..n -> EdgeRows]
    /\ \E n \in 1..MaxNode : path \in [1..n -> Nodes]
    /\ gdf = <<>>
    /\ edges_file = edges
    /\ user_input = DefaultInput
    /\ graph = build_graph(Nodes, edges)
    /\ edge_pairs = <<>>
    /\ ordered_edges = <<>>
    /\ route_edges_gdf = <<>>
    /\ route_line = NoLine
    /\ route_file = NoRoute
    /\ error = "none"
    /\ NotCalled
    /\ Unused

NextEdges == create_edgepairs \/ retrieve_edges

SpecEdges == InitEdges /\ [][NextEdges]_vars

----------------------------------------------------------------------------
(* Properties of the routing run (checked under Spec) *)

IsArc(G, u, v) == InSeq(<<u, v>>, G.arcs)

\* the directed paths from s to t: node lists without a repeated node in
\* which every consecutive pair is an arc
Paths(G, s, t) ==
    {p \in UNION {[1..n -> G.nodes] : n \in 1..Cardinality(G.nodes)} :
        /\ p[1] = s
        /\ p[Len(p)] = t
        /\ \A i, j \in 1..Len(p) : (p[i] = p[j]) => (i = j)
        /\ \A i \in 1..(Len(p) - 1) : IsArc(G, p[i], p[i + 1])}

RECURSIVE Cost(_, _, _)
Cost(G, field, p) ==
    IF Len(p) <= 1 THEN F(0)
    ELSE FAdd(G.attr[<<p[1], p[2]>>][field], Cost(G, field, Tail(p)))

RECURSIVE Reachable(_, _)
Reachable(G, from) ==
    LET more == from \cup {a[2] : a \in {G.arcs[i] : i \in
                              {j \in 1..Len(G.arcs) : G.arcs[j][1] \in from}}}
    IN  IF more = from THEN from ELSE Reachable(G, more)

RouteOf(p) ==
    /\ p \in Paths(graph, user_input.routing_source, user_input.routing_target)
    /\ \A w \in Paths(graph, user_input.routing_source, user_input.routing_target)
                    \ {p} :
            FLe(Cost(graph, user_input.routing_weight, p),
                Cost(graph, user_input.routing_weight, w))

\* C7: the node list stored by create_route starts at the source, ends at the
\* target, follows directed arcs, and the sum of the chosen field along it is
\* less than or equal to that of every other directed source-to-target path.
RouteIsShortest == (pc = "path_found") => RouteOf(path)

\* the same for graphs in which the chosen field of every arc is a number
RouteIsShortestOfNumbers ==
    (pc = "path_found"
        /\ \A i \in 1..Len(graph.arcs) :
              IsNum(graph.attr[graph.arcs[i]][user_input.routing_weight]))
    => RouteOf(path)

RouteStarted == pc \notin {"joined", "greendex_saved", "constructed", "graph_built"}

NothingRouted ==
    /\ pc = "failed"
    /\ path = <<>>
    /\ edge_pairs = <<>>
    /\ ordered_edges = <<>>
    /\ route_edges_gdf = <<>>
    /\ route_line = NoLine
    /\ route_file = NoRoute

\* C8: create_route fails with the no-path error when the target cannot be
\* reached from the source along directed arcs, and with the unknown-node
\* error when the source or the target is no node of the graph; then no path
\* is stored and no later stage of the run has produced anything.
RouteErrors ==
    RouteStarted =>
        LET s == user_input.routing_source
            t == user_input.routing_target
        IN  /\ (s \notin graph.nodes \/ t \notin graph.nodes)
                    => (NothingRouted /\ error = "NodeNotFound")
            /\ (s \in graph.nodes /\ t \in graph.nodes /\ t \notin Reachable(graph, {s}))
                    => (NothingRouted /\ error = "NetworkXNoPath")

\* the source has outgoing arcs, yet none leads on to the target
RouteErrorsWitness ==
    /\ pc = "failed"
    /\ error = "NetworkXNoPath"
    /\ user_input.routing_source \in graph.nodes
    /\ user_input.routing_target \in graph.nodes
    /\ Cardinality(Reachable(graph, {user_input.routing_source})) > 1

\* C9: for a path of k+1 nodes retrieve_edges stores exactly k edge records,
\* the i-th a record of the edge table with u = path[i] and v = path[i+1], or
\* it fails when some consecutive pair has no record; it never leaves a pair out.
EdgesAlongPath ==
    LET Missing == \E i \in 1..(Len(path) - 1) :
                      \A j \in 1..Len(edges) :
                          ~(edges[j].u = path[i] /\ edges[j].v = path[i + 1])
    IN  /\ (pc = "edges_retrieved") =>
              /\ ~Missing
              /\ Len(ordered_edges) = Len(path) - 1
              /\ \A i \in 1..Len(ordered_edges) :
                    /\ ordered_edges[i].u = path[i]
                    /\ ordered_edges[i].v = path[i + 1]
                    /\ InSeq(ordered_edges[i], edges)
        /\ (pc = "failed") =>
              /\ Missing
              /\ error = "IndexError"
              /\ ordered_edges = <<>>

\* two records found for a path of three nodes
EdgesAlongPathWitness ==
    /\ pc = "edges_retrieved"
    /\ Len(path) = 3
    /\ Len(ordered_edges) = 2

\* C10: when the edge geometries of the route do not join into one connected
\* line, merge_edges fails and no route is saved: a multi-part geometry is
\* never stored as the route line.
RouteLineIsSingle ==
    /\ route_line.type # "MultiLineString"
    /\ (route_file # NoRoute) => (route_file.geometry.type = "LineString")

\* the positions run_routing passes through, in the order of its calls
Stages == <<"constructed", "graph_built", "path_found", "edgepairs_created",
            "edges_retrieved", "edges_converted", "edges_merged", "route_saved">>

StageOf(p) == CHOOSE k \in 1..Len(Stages) : Stages[k] = p

\* whether the output of the k-th call of run_routing is as before the run
Untouched(k) ==
    CASE k = 1 -> graph = EmptyGraph /\ edges = <<>>
      [] k = 2 -> path = <<>>
      [] k = 3 -> edge_pairs = <<>>
      [] k = 4 -> ordered_edges = <<>>
      [] k = 5 -> route_edges_gdf = <<>>
      [] k = 6 -> route_line = NoLine
      [] k = 7 -> route_file = NoRoute

RunState ==
    /\ (error # "none") <=> (pc = "failed")
    /\ (pc = "failed") => (route_file = NoRoute)
    /\ InSeq(pc, Stages) =>
          \A k \in StageOf(pc)..(Len(Stages) - 1) : Untouched(k)
    /\ (route_file # NoRoute) => (pc = "route_saved")

RunStep ==
    /\ pc # "failed"
    /\ (InSeq(pc, Stages) /\ pc' # pc) =>
          \/ pc' = "failed"
          \/ StageOf(pc) < Len(Stages) /\ pc' = Stages[StageOf(pc) + 1]

\* C11: run_routing calls create_graph, create_route, create_edgepairs,
\* retrieve_edges, convert_edges, merge_edges and save_route in this order,
\* each on the state the one before it left when it returned; a call that
\* raises ends the run (nothing happens after it), and then no route file has
\* been written: the file exists only when save_route has returned.
RunInOrder == []RunState /\ [][RunStep]_vars

\* a run that got as far as merge_edges and failed there, without a file
RunInOrderWitness ==
    /\ pc = "failed"
    /\ error = "AttributeError"
    /\ path # <<>>
    /\ route_file = NoRoute

GraphBuilt == pc \notin {"joined", "greendex_saved", "constructed"}

\* C12: the arcs of the graph are the ordered pairs (u, v) of the edge
\* table, each of them once; v -> u is an arc only if some record has u' = v
\* and v' = u.
GraphArcs ==
    GraphBuilt =>
        /\ {graph.arcs[k] : k \in 1..Len(graph.arcs)}
                = {<<edges[i].u, edges[i].v>> : i \in 1..Len(edges)}
        /\ \A j, k \in 1..Len(graph.arcs) : (graph.arcs[j] = graph.arcs[k]) => (j = k)
        /\ \A i \in 1..Len(edges) :
              IsArc(graph, edges[i].v, edges[i].u)
                  => \E j \in 1..Len(edges) :
                        edges[j].u = edges[i].v /\ edges[j].v = edges[i].u

\* two records of the pair (1, 2) and none of (2, 1): one arc 1 -> 2, no 2 -> 1
GraphArcsWitness ==
    /\ pc = "graph_built"
    /\ \E i, j \in 1..Len(edges) :
          i # j /\ edges[i].u = 1 /\ edges[i].v = 2 /\ edges[j].u = 1 /\ edges[j].v = 2
    /\ IsArc(graph, 1, 2)
    /\ ~IsArc(graph, 2, 1)

\* the last record of the table with the pair (u, v)
LastRecord(u, v) ==
    edges[CHOOSE i \in 1..Len(edges) :
             /\ edges[i].u = u /\ edges[i].v = v
             /\ \A j \in (i + 1)..Len(edges) : ~(edges[j].u = u /\ edges[j].v = v)]

\* C13: the attributes weight and length of an arc u -> v are those of the
\* last record of the edge table with the pair (u, v).
LastWriteWins ==
    GraphBuilt =>
        \A k \in 1..Len(graph.arcs) :
            LET r == LastRecord(graph.arcs[k][1], graph.arcs[k][2])
            IN  graph.attr[graph.arcs[k]] = [weight |-> r.weight, length |-> r.length]

\* an earlier record of the same pair has another weight and another length
LastWriteWinsWitness ==
    /\ pc = "graph_built"
    /\ \E i, j \in 1..Len(edges) :
          /\ i < j
          /\ edges[i].u = edges[j].u /\ edges[i].v = edges[j].v
          /\ IsNum(edges[i].weight) /\ IsNum(edges[j].weight)
          /\ edges[i].weight # edges[j].weight
          /\ edges[i].length # edges[j].length
          /\ edges[j] = LastRecord(edges[j].u, edges[j].v)
          /\ graph.attr[<<edges[j].u, edges[j].v>>].weight = edges[j].weight
          /\ graph.attr[<<edges[j].u, edges[j].v>>].length = edges[j].length

----------------------------------------------------------------------------
(* The square: the arcs 1 -> 2 -> 4 and 1 -> 3 -> 4, every one of length 1,  *)
(* the arcs through one of the nodes 2 and 3 with the larger tree-covered    *)
(* area.  The table holds the four records in any order; the weights are     *)
(* computed by calculate_areas and the route is searched from 1 to 4 by      *)
(* weight.  (Node 4 becomes a node of the graph with its arcs.)              *)

SquareArcs == <<<<1, 2>>, <<2, 4>>, <<1, 3>>, <<3, 4>>>>

\* the record of the k-th arc of the square, the arcs through node green
\* having the tree-covered area hi and the others lo
SquareRow(k, green, hi, lo) ==
    LET a == SquareArcs[k]
    IN  [u |-> a[1], v |-> a[2], geometry |-> a, length |-> F(1),
         area_x |-> F(MaxArea),
         area_y |-> IF green \in {a[1], a[2]} THEN F(hi) ELSE F(lo)]

InitSquare ==
    /\ pc = "joined"
    /\ \E order \in Permutations(1..Len(SquareArcs)), green \in {2, 3},
          hi \in 1..MaxArea :
          \E lo \in 0..(hi - 1) :
              gdf = [i \in 1..Len(SquareArcs) |-> SquareRow(order[i], green, hi, lo)]
    /\ Idle
    /\ Unused

NextSquare ==
    \/ calculate_areas
    \/ GreenRouting(1, 4, "weight")
    \/ run_routing

SpecSquare == InitSquare /\ [][NextSquare]_vars

\* the greendex of the record of the arc u -> v
GreendexOf(u, v) ==
    edges[CHOOSE i \in 1..Len(edges) : edges[i].u = u /\ edges[i].v = v].greendex

\* the one of the nodes 2 and 3 whose arcs have the larger greendex
Greener == IF FLt(GreendexOf(1, 3), GreendexOf(1, 2)) THEN 2 ELSE 3

\* C14: on the square with uniform length 1, the route from 1 to 4 by weight
\* goes through the node whose arcs have the higher greendex.
SquareGreenestRoute ==
    (pc = "path_found" /\ Len(edges) = Len(SquareArcs)) => (path = <<1, Greener, 4>>)

----------------------------------------------------------------------------
(* Single calls of the utils/geometry.py functions on bounded tables *)

CRS == {"EPSG:4326", "EPSG:5070"}

Geometries ==
    {NullGeometry, InvalidGeometry}
        \cup {Polygon(c) : c \in (SUBSET (1..MaxCell)) \ {{}}}

Distances == (0 - MaxDistance)..MaxDistance

\* the tables of up to MaxFeatures rows drawn from Rows
TablesOf(crs, columns, Rows) ==
    {[crs |-> crs, columns |-> columns, rows |-> r] :
        r \in UNION {[1..n -> Rows] : n \in 0..MaxFeatures}}

\* tables with a geometry column only
FeatureTables ==
    UNION {TablesOf(c, {"geometry"}, [geometry : Geometries]) : c \in CRS}

\* tables that have a column 'id' already
IdTables ==
    UNION {TablesOf(c, {"geometry", "id"},
                    [geometry : Geometries, id : 1..MaxFeatures]) : c \in CRS}

\* input tables of clipping_vectors: one crs stands for either
ClipInputs == {t \in FeatureTables : t.crs = "EPSG:4326"}

\* mask tables of clipping_vectors: their polygons lie one cell further along
\* the line, so that an input polygon may overlap the mask, touch it, or miss it
ClipMasks ==
    {[t EXCEPT !.rows = [i \in 1..Len(t.rows) |->
                            [geometry |-> [t.rows[i].geometry EXCEPT
                                              !.cells = {c + 1 : c \in @}]]]] :
        t \in FeatureTables}

\* target tables of join_by_attribute: with 'id', without it, and with an
\* 'area' column of their own
TargetTables ==
    TablesOf("EPSG:5070", {"geometry", "id"},
             [geometry : {Polygon({1})}, id : 1..MaxFeatures])
    \cup TablesOf("EPSG:5070", {"geometry"}, [geometry : {Polygon({1})}])
    \cup TablesOf("EPSG:5070", {"geometry", "id", "area"},
                  [geometry : {Polygon({1})}, id : 1..MaxFeatures, area : {F(1)}])

\* source tables of join_by_attribute: with 'id' and 'area', and without one
SourceTables ==
    TablesOf("EPSG:5070", {"geometry", "id", "area"},
             [geometry : {Polygon({1})}, id : 1..MaxFeatures,
              area : {F(a) : a \in 1..MaxCell}])
    \cup TablesOf("EPSG:5070", {"geometry", "area"},
                  [geometry : {Polygon({1})}, area : {F(a) : a \in 1..MaxCell}])
    \cup TablesOf("EPSG:5070", {"geometry", "id"},
                  [geometry : {Polygon({1})}, id : 1..MaxFeatures])

\* tables handed to calculate_greendex
GreendexTables ==
    TablesOf("EPSG:5070", {"u", "v", "geometry", "length", "area_x", "area_y"},
             [u : {1}, v : {2}, geometry : {<<1, 2>>}, length : LengthValues,
              area_x : {F(MaxArea)}, area_y : {F(0), F(1)}])

\* what the call of a function with the given arguments leaves behind
Called(function, table, other, distance, out) ==
    /\ call' = [function |-> function, gdf |-> table, other |-> other,
                distance |-> distance]
    /\ caller_gdf' = out.after
    /\ result' = out.result
    /\ aliased' = out.aliased
    /\ output_vector' = out.file
    /\ error' = out.error
    /\ pc' = IF out.error = "none" THEN "returned" ELSE "raised"
    /\ UNCHANGED <<routing_vars, program_vars>>

call_add_id ==
    /\ pc = "not_called"
    /\ \E table \in FeatureTables \cup IdTables :
          Called("add_id", table, NoTable, 0, add_id(table))

call_buffer_vector ==
    /\ pc = "not_called"
    /\ \E table \in FeatureTables, distance \in Distances :
          Called("buffer_vector", table, NoTable, distance,
                 buffer_vector(table, distance))

call_clipping_vectors ==
    /\ pc = "not_called"
    /\ \E input_vector \in ClipInputs, mask_vector \in ClipMasks :
          \E order \in Orders(input_vector, mask_vector) :
              Called("clipping_vectors", input_vector, mask_vector, 0,
                     clipping_vectors(input_vector, mask_vector, order))

call_calculate_area ==
    /\ pc = "not_called"
    /\ \E table \in FeatureTables :
          Called("calculate_area", table, NoTable, 0, calculate_area(table))

call_join_by_attribute ==
    /\ pc = "not_called"
    /\ \E table \in TargetTables, join \in SourceTables :
          Called("join_by_attribute", table, join, 0,
                 join_by_attribute(table, join))

call_calculate_greendex ==
    /\ pc = "not_called"
    /\ \E table \in GreendexTables :
          Called("calculate_greendex", table, NoTable, 0, greendex_table(table))

\* the values of a pixel: background, another grey value, foreground
PixelValues == {0, 254, 255}

Rasters ==
    {[crs |-> c, band |-> b] :
        c \in CRS, b \in UNION {[1..n -> PixelValues] : n \in 1..MaxPixels}}

call_raster_to_vector ==
    /\ pc = "not_called"
    /\ \E src \in Rasters :
          LET out == raster_to_vector(src)
          IN  /\ raster' = src
              /\ call' = [NoCall EXCEPT !.function = "raster_to_vector"]
              /\ caller_gdf' = out.after
              /\ result' = out.result
              /\ aliased' = out.aliased
              /\ output_vector' = out.file
              /\ error' = out.error
              /\ pc' = IF out.error = "none" THEN "returned" ELSE "raised"
    /\ UNCHANGED <<routing_vars, folder_vars, tile_vars>>
    /\ UNCHANGED <<disk, overwrite, stage, executed, raised, runs>>

InitVector ==
    /\ pc = "not_called"
    /\ gdf = <<>>
    /\ Idle
    /\ Unused

NextVector ==
    \/ call_add_id
    \/ call_buffer_vector
    \/ call_clipping_vectors
    \/ call_calculate_area
    \/ call_join_by_attribute
    \/ call_calculate_greendex
    \/ call_raster_to_vector

SpecVector == InitVector /\ [][NextVector]_vars

----------------------------------------------------------------------------
(* Properties of the utils/geometry.py functions (checked under SpecVector) *)

CalledFunction(name) == call.function = name /\ pc \in {"returned", "raised"}

HasGeometry(t, kind) == \E i \in 1..Len(t.rows) : t.rows[i].geometry.kind = kind

\* C15: buffer_vector with distance <= 0 fails with the invalid-distance
\* error whatever the table holds (no rows, null geometries, invalid
\* geometries): it returns no table and raises no geometry error.
BufferInvalidDistance ==
    (CalledFunction("buffer_vector") /\ call.distance <= 0) =>
        /\ pc = "raised"
        /\ error = "Invalid buffer distance"
        /\ result = NoTable

\* a table with a null and an invalid geometry, buffered by a distance <= 0
BufferInvalidDistanceWitness ==
    /\ CalledFunction("buffer_vector")
    /\ call.distance <= 0
    /\ HasGeometry(call.gdf, "null")
    /\ HasGeometry(call.gdf, "invalid")
    /\ error = "Invalid buffer distance"

\* the row without its column 'id'
WithoutId(row) == [c \in (DOMAIN row) \ {"id"} |-> row[c]]

\* C16: add_id on a table of N rows returns the same N rows in the same
\* order with id = 1..N by row position, whatever 'id' column there was;
\* add_id of its output is that output again; the result of an empty table
\* is an empty table with an 'id' column; the table returned is the one
\* written to the file.
AddIdSequential ==
    CalledFunction("add_id") =>
        /\ pc = "returned"
        /\ result.crs = call.gdf.crs
        /\ result.columns = call.gdf.columns \cup {"id"}
        /\ Len(result.rows) = Len(call.gdf.rows)
        /\ \A i \in 1..Len(result.rows) :
              /\ result.rows[i].id = i
              /\ WithoutId(result.rows[i]) = WithoutId(call.gdf.rows[i])
        /\ add_id(result).result = result
        /\ output_vector = result

\* a table whose ids were 2, 1 comes back with the ids 1, 2
AddIdSequentialWitness ==
    /\ CalledFunction("add_id")
    /\ Len(call.gdf.rows) = 2
    /\ "id" \in call.gdf.columns
    /\ call.gdf.rows[1].id = 2
    /\ call.gdf.rows[2].id = 1
    /\ call.gdf.rows[1].geometry # call.gdf.rows[2].geometry
    /\ result.rows[1].id = 1
    /\ result.rows[2].id = 2

\* C17: clipping_vectors on tables of different crs fails with the
\* crs-mismatch error, also when a table is empty or holds null or invalid
\* geometries, and writes no file.
ClipCrsMismatch ==
    (CalledFunction("clipping_vectors") /\ call.gdf.crs # call.other.crs) =>
        /\ pc = "raised"
        /\ error = "Input and mask CRS must match"
        /\ output_vector = NoOutput

\* different crs, a null geometry in the input and an invalid one in the mask
ClipCrsMismatchWitness ==
    /\ CalledFunction("clipping_vectors")
    /\ call.gdf.crs # call.other.crs
    /\ HasGeometry(call.gdf, "null")
    /\ HasGeometry(call.other, "invalid")
    /\ error = "Input and mask CRS must match"

\* C18: clipping_vectors on tables of the same crs that hold only valid,
\* non-null geometries, one of them without rows, succeeds and writes a table
\* without rows that has the crs and the columns of the input.
ClipEmpty ==
    (/\ CalledFunction("clipping_vectors")
     /\ call.gdf.crs = call.other.crs
     /\ is_valid_all(call.gdf) /\ is_valid_all(call.other)
     /\ (empty(call.gdf) \/ empty(call.other))) =>
        /\ pc = "returned"
        /\ error = "none"
        /\ output_vector # NoOutput
        /\ output_vector.rows = <<>>
        /\ output_vector.crs = call.gdf.crs
        /\ output_vector.columns = call.gdf.columns

\* an input table with rows clipped by a mask without rows
ClipEmptyWitness ==
    /\ CalledFunction("clipping_vectors")
    /\ pc = "returned"
    /\ Len(call.gdf.rows) = MaxFeatures
    /\ empty(call.other)
    /\ output_vector # NoOutput
    /\ output_vector.rows = <<>>

\* the number of result rows that target row i gives
JoinCount(i) ==
    LET n == Cardinality({j \in 1..Len(call.other.rows) :
                            call.other.rows[j].id = call.gdf.rows[i].id})
    IN  IF n = 0 THEN 1 ELSE n

RECURSIVE JoinUpTo(_)
JoinUpTo(i) == IF i = 0 THEN 0 ELSE JoinUpTo(i - 1) + JoinCount(i)

\* the target row that result row k comes from
JoinOrigin(k) ==
    CHOOSE i \in 1..Len(call.gdf.rows) : JoinUpTo(i - 1) < k /\ k <= JoinUpTo(i)

\* the joined area of a result row
JoinedArea(row) == IF "area" \in call.gdf.columns THEN row.area_y ELSE row.area

\* the result row carries the values of the target row
FromTarget(row, target) ==
    /\ \A c \in call.gdf.columns \ {"area"} : row[c] = target[c]
    /\ ("area" \in call.gdf.columns) => (row.area_x = target.area)

\* C19: join_by_attribute is a left join on 'id': every target row is in the
\* result, in target order, once for every source row of its id; a target row
\* whose id is not in the source is there once, with a not-a-number area;
\* when the ids of the source are unique the result has as many rows as the
\* target.
JoinIsLeftJoin ==
    (CalledFunction("join_by_attribute") /\ pc = "returned") =>
        LET target == call.gdf.rows
            source == call.other.rows
        IN  /\ Len(result.rows) = JoinUpTo(Len(target))
            /\ \A k \in 1..Len(result.rows) :
                  LET i == JoinOrigin(k)
                      ids == {j \in 1..Len(source) : source[j].id = target[i].id}
                  IN  /\ FromTarget(result.rows[k], target[i])
                      /\ (ids = {}) => IsNaN(JoinedArea(result.rows[k]))
                      /\ (ids # {}) =>
                            \E j \in ids : JoinedArea(result.rows[k]) = source[j].area
            /\ (\A i, j \in 1..Len(source) : (source[i].id = source[j].id) => (i = j))
                  => Len(result.rows) = Len(target)

\* two target rows, the first without a source row of its id, the second
\* with one
JoinIsLeftJoinWitness ==
    /\ CalledFunction("join_by_attribute")
    /\ pc = "returned"
    /\ Len(call.gdf.rows) = 2
    /\ Len(call.other.rows) = 1
    /\ call.other.rows[1].id = call.gdf.rows[2].id
    /\ call.gdf.rows[1].id # call.gdf.rows[2].id
    /\ Len(result.rows) = 2
    /\ IsNaN(JoinedArea(result.rows[1]))
    /\ JoinedArea(result.rows[2]) = call.other.rows[1].area

Copying == {"add_id", "buffer_vector", "calculate_area", "join_by_attribute",
            "calculate_greendex"}

\* C20: after add_id, buffer_vector, calculate_area, join_by_attribute or
\* calculate_greendex has returned, the table it was given has the columns
\* and values it had before the call, and the table returned is another one.
NoMutation ==
    (call.function \in Copying /\ pc = "returned") =>
        /\ caller_gdf = call.gdf
        /\ ~aliased

\* the same for the functions other than calculate_greendex
NoMutationButGreendex ==
    (call.function \in Copying \ {"calculate_greendex"} /\ pc = "returned") =>
        /\ caller_gdf = call.gdf
        /\ ~aliased

\* C22: raster_to_vector raises the no-foreground error exactly when no pixel
\* of the raster is 255, and then writes no file; otherwise it writes at
\* least one feature, and every feature is a region of pixels of value 255
RasterForeground ==
    CalledFunction("raster_to_vector") =>
        LET foreground == {c \in 1..Len(raster.band) : raster.band[c] = 255}
        IN  IF foreground = {}
            THEN /\ pc = "raised"
                 /\ error = "No foreground pixels (value=255) found in raster"
                 /\ output_vector = NoOutput
            ELSE /\ pc = "returned"
                 /\ output_vector # NoOutput
                 /\ Len(output_vector.rows) >= 1
                 /\ \A i \in 1..Len(output_vector.rows) :
                       /\ output_vector.rows[i].value = 255
                       /\ output_vector.rows[i].geometry.kind = "polygon"
                       /\ output_vector.rows[i].geometry.cells # {}
                       /\ output_vector.rows[i].geometry.cells \subseteq foreground
                 /\ union_all(output_vector) = foreground

\* a raster of other values than 255 only, some of them not 0, was rejected
RasterForegroundWitness ==
    /\ CalledFunction("raster_to_vector")
    /\ pc = "raised"
    /\ \E c \in 1..Len(raster.band) : raster.band[c] \notin {0, 255}
    /\ output_vector = NoOutput

----------------------------------------------------------------------------
(* Two pipeline runs in the same data folders *)

\* names a user may give to an area of interest
AoiNames == {"bend_oregon", "bend_oregon_tree_mask", "bend_oregon_edges", "salem"}

InitFolder ==
    /\ pc = "running"
    /\ gdf = <<>>
    /\ Idle
    /\ aoi_name \in {a \in [Runs -> AoiNames] : a[1] # a[2]}
    /\ programs = [run \in Runs |-> <<>>]
    /\ opened = [run \in Runs |-> {}]
    /\ NoTile
    /\ NotStarted

NextFolder ==
    \E run \in Runs :
        \/ reproject_layers(run)
        \/ vector_processing(run)
        \/ \E weight \in RoutingPreference : routing(run, weight)

\* the programs of two runs for different areas, in any interleaving
SpecFolder == InitFolder /\ [][NextFolder]_vars

\* the files of the given folder that the run has opened in one of the modes
Names(run, modes) == {[folder |-> f.folder, name |-> f.name] :
                         f \in {g \in opened[run] : g.mode \in modes}}

\* C21: two runs for distinct AOI names open disjoint sets of files, so that
\* neither writes a file the other reads or writes
DisjointFiles ==
    \A run \in Runs, other \in Runs :
        run # other =>
            Names(run, {"read", "write"}) \cap Names(other, {"read", "write"}) = {}

----------------------------------------------------------------------------
(* Single calls of UserInput and of tile_calculator *)

\* latitudes and longitudes a caller may pass: nothing, values inside the
\* range, and a value beyond it
Latitudes == {None, F(0), F(1), F(91)}

Longitudes == {None, F(0), F(1), F(181)}

\* UserInput(aoi_name=..., sw_lat=..., ...)
UserInput(sw_lat, sw_lon, ne_lat, ne_lon) ==
    /\ pc = "not_called"
    /\ user_input' = new_UserInput("test_aoi", sw_lat, sw_lon, ne_lat, ne_lon,
                                   F(1), 1, 2, "length")
    /\ call' = [NoCall EXCEPT !.function = "UserInput"]
    /\ pc' = "returned"
    /\ UNCHANGED <<gdf, edges_file, graph, edges, path, edge_pairs,
                   ordered_edges, route_edges_gdf, route_line, route_file, error>>
    /\ UNCHANGED <<caller_gdf, result, aliased, output_vector>>
    /\ UNCHANGED program_vars

\* Web Mercator coordinates in metres: the lower corner, and upper corners
\* that put the extent around one pixel and around MaxTile pixels at the
\* resolutions below, and an upper corner at infinity
LowerCorners == {F(0), F(1)}

UpperCorners ==
    {F(0), F(1), F(2), F(3), F(2 * MaxTile - 1), F(2 * MaxTile),
     F(2 * MaxTile + 1), F(2 * MaxTile + 3), Inf(1)}

Resolutions == {F(-1), F(0), F(1), F(2)}

call_tile_calculator ==
    /\ pc = "not_called"
    /\ \E xmin \in LowerCorners, xmax \in UpperCorners, ymax \in UpperCorners,
          res \in Resolutions :
          LET bbox == [xmin |-> xmin, ymin |-> F(0), xmax |-> xmax, ymax |-> ymax]
              out == tile_calculator(bbox, res)
          IN  /\ bbox_mercator' = bbox
              /\ resolution' = res
              /\ tile' = out.tile
              /\ error' = out.error
              /\ pc' = IF out.error = "none" THEN "returned" ELSE "raised"
    /\ call' = [NoCall EXCEPT !.function = "tile_calculator"]
    /\ UNCHANGED <<caller_gdf, result, aliased, output_vector>>
    /\ UNCHANGED <<routing_vars, folder_vars, pipeline_vars>>

InitUser ==
    /\ pc = "not_called"
    /\ gdf = <<>>
    /\ Idle
    /\ Unused

NextUser ==
    \/ \E sw_lat \in Latitudes, sw_lon \in Longitudes,
          ne_lat \in Latitudes, ne_lon \in Longitudes :
          UserInput(sw_lat, sw_lon, ne_lat, ne_lon)
    \/ call_tile_calculator

SpecUser == InitUser /\ [][NextUser]_vars

\* the integer nearest to the extent of the box divided by the resolution,
\* the even one of two that are equally near
Nearest(lower, upper) ==
    LET q == FDiv(FSub(upper, lower), resolution)
        below == q.n \div q.d
    IN  CHOOSE i \in {below, below + 1} :
            LET twice == FMul(F(2), FSub(F(i), q))
            IN  /\ FLe(F(-1), twice) /\ FLe(twice, F(1))
                /\ (twice \in {F(-1), F(1)}) => i % 2 = 0

TileMessage(text, width, height) ==
    text \o " Width: " \o ToString(width) \o ", height: " \o ToString(height)

\* C23: tile_calculator returns the rounded extents in pixels exactly when
\* both are in 1..MaxTile, raises the '>= 1' error when one is below 1 and the
\* 'too large' error when none is below 1 and one is above MaxTile, and never
\* returns a width or height outside 1..MaxTile
TileSize ==
    CalledFunction("tile_calculator") =>
        /\ (pc = "returned") => tile \in (1..MaxTile) \X (1..MaxTile)
        /\ IF resolution.n = 0
              \/ ~IsNum(FSub(bbox_mercator.xmax, bbox_mercator.xmin))
              \/ ~IsNum(FSub(bbox_mercator.ymax, bbox_mercator.ymin))
           THEN pc = "raised"
           ELSE LET width == Nearest(bbox_mercator.xmin, bbox_mercator.xmax)
                    height == Nearest(bbox_mercator.ymin, bbox_mercator.ymax)
                IN  /\ (pc = "returned") <=>
                          (width \in 1..MaxTile /\ height \in 1..MaxTile)
                    /\ (pc = "returned") => tile = <<width, height>>
                    /\ (width < 1 \/ height < 1) =>
                          error = TileMessage(
                              "Width and height (pixel count) must be >= 1.",
                              width, height)
                    /\ (width >= 1 /\ height >= 1
                            /\ (width > MaxTile \/ height > MaxTile)) =>
                          error = TileMessage(
                              "Tile size too large: maximum allowed is 2500x2500 pixels.",
                              width, height)

\* an extent of MaxTile pixels and a half was rounded to MaxTile and returned
TileSizeWitness ==
    /\ CalledFunction("tile_calculator")
    /\ pc = "returned"
    /\ resolution = F(2)
    /\ FSub(bbox_mercator.xmax, bbox_mercator.xmin) = F(2 * MaxTile + 1)
    /\ tile[1] = MaxTile

InRange(x, lo, hi) == FLe(F(lo), x) /\ FLe(x, F(hi))

\* C24: every UserInput that was constructed has all four coordinates, the
\* latitudes in [-90, 90], the longitudes in [-180, 180], and a south-west
\* corner that is below and left of the north-east corner
ValidBoundingBox ==
    (call.function = "UserInput" /\ pc = "returned") =>
        /\ \A c \in {"sw_lat", "sw_lon", "ne_lat", "ne_lon"} : user_input[c] # None
        /\ InRange(user_input.sw_lat, -90, 90) /\ InRange(user_input.ne_lat, -90, 90)
        /\ InRange(user_input.sw_lon, -180, 180) /\ InRange(user_input.ne_lon, -180, 180)
        /\ FLt(user_input.sw_lat, user_input.ne_lat)
        /\ FLt(user_input.sw_lon, user_input.ne_lon)

----------------------------------------------------------------------------
(* The totals saved with the route (checked under Spec) *)

\* C25: the weight and the length saved with the route are the sums of the
\* arc attributes along the path in the graph, the sums that shortest_path
\* compared
SavedTotals ==
    (pc = "route_saved") =>
        /\ route_file.weight = Cost(graph, "weight", path)
        /\ route_file.length = Cost(graph, "length", path)

----------------------------------------------------------------------------
(* Runs of process_vectors on a raw folder that holds the reprojected tree  *)
(* mask and edges, and any of the stage files from an earlier processing    *)

EdgeColumns == {"u", "v", "length", "geometry"}

EdgeRecord(u, v, length, g) == [u |-> u, v |-> v, length |-> F(length), geometry |-> g]

EdgeTable(rows) == [crs |-> "EPSG:5070", columns |-> EdgeColumns, rows |-> rows]

\* <aoi>_edges_reprojected.gpkg: missing, without rows, with edges near the
\* trees and away from them, with an edge without geometry, with an edge
\* whose geometry is invalid
PipelineEdges ==
    {NoOutput,
     EdgeTable(<<>>),
     EdgeTable(<<EdgeRecord(1, 2, 1, Polygon({1}))>>),
     EdgeTable(<<EdgeRecord(1, 2, 1, Polygon({1, 2})),
                 EdgeRecord(2, 3, 2, Polygon({20}))>>),
     EdgeTable(<<EdgeRecord(1, 2, 1, Polygon({1})),
                 EdgeRecord(2, 3, 2, NullGeometry)>>),
     EdgeTable(<<EdgeRecord(1, 2, 1, InvalidGeometry)>>)}

\* <aoi>_tree_mask_reprojected.tif: without trees, with trees, and in
\* another crs than the edges
PipelineRasters ==
    {[crs |-> "EPSG:5070", band |-> <<254, 0>>],
     [crs |-> "EPSG:5070", band |-> <<255>>],
     [crs |-> "EPSG:5070", band |-> <<0, 255, 255>>],
     [crs |-> "EPSG:4326", band |-> <<255>>]}

\* the stage files of an earlier processing of the area, made by the five
\* stage methods from the mask and the edges of that time
EarlierDisk ==
    LET start == [NoDisk EXCEPT ![edges_reprojected_path] =
                     EdgeTable(<<EdgeRecord(1, 3, 2, Polygon({3}))>>)]
        trees == extract_tree_polygons(start, [crs |-> "EPSG:5070",
                                               band |-> <<0, 0, 255>>]).disk
        buffers == tree_buffer(trees).disk
        roads == road_buffer(buffers).disk
        clipped == clip_roads(roads, <<1>>).disk
    IN  calculate_areas_of(clipped).disk

StageFiles == VectorPaths \ {edges_reprojected_path}

InitPipeline ==
    /\ pc = "idle"
    /\ gdf = <<>>
    /\ Idle
    /\ NoRuns
    /\ NoTile
    /\ raster \in PipelineRasters
    /\ \E input \in PipelineEdges, present \in SUBSET StageFiles :
          disk = [p \in VectorPaths |->
                     IF p = edges_reprojected_path THEN input
                     ELSE IF p \in present THEN EarlierDisk[p]
                     ELSE NoOutput]
    /\ overwrite = FALSE
    /\ stage = 0
    /\ executed = <<>>
    /\ raised = NoError
    /\ runs = 0

NextPipeline ==
    \/ \E force \in BOOLEAN : process_vectors(force)
    \/ process_step

SpecPipeline == InitPipeline /\ [][NextPipeline]_vars

----------------------------------------------------------------------------
(* Properties of process_vectors (checked under SpecPipeline) *)

MethodIndex(name) == CHOOSE k \in 1..Len(Methods) : Methods[k] = name

Ran(name) == InSeq(name, executed)

StagesState ==
    /\ \A i \in 1..Len(executed), j \in 1..Len(executed) :
          i < j => MethodIndex(executed[i]) < MethodIndex(executed[j])
    /\ (pc = "running") =>
          \A i \in 1..Len(executed) : MethodIndex(executed[i]) < stage
    /\ (pc = "done" /\ overwrite) => executed = Methods
    /\ (pc = "done") => \A k \in 1..Len(Methods) : exists(disk, StagePaths[k])
    /\ (runs >= 2 /\ ~overwrite) => executed = <<>> /\ pc # "failed"

StagesStep ==
    (pc = "running") =>
        LET runs_method == executed' = Append(executed, Methods[stage])
        IN  /\ stage \in 1..Len(Methods)
            /\ runs_method <=> (overwrite \/ ~exists(disk, StagePaths[stage]))
            /\ ~runs_method => (executed' = executed /\ disk' = disk)
            /\ \/ stage' = stage + 1 /\ pc' = "running" /\ stage < Len(Methods)
               \/ stage' = stage + 1 /\ pc' = "done" /\ stage = Len(Methods)
               \/ stage' = stage /\ pc' = "failed" /\ runs_method

\* C26: process_vectors goes through the five stages in their order; a
\* stage method is called exactly when overwrite is set or the stage's file
\* is not there when the stage is reached; with overwrite every method is
\* called once in a run that completes; a run without overwrite that
\* follows a completed run calls no method
StagesInOrder == []StagesState /\ [][StagesStep]_vars

\* a second run without overwrite completed without calling a method, on
\* files that the first run had written
StagesInOrderWitness ==
    /\ runs = 2
    /\ pc = "done"
    /\ ~overwrite
    /\ executed = <<>>
    /\ disk[areas_calculated_path] # EarlierDisk[areas_calculated_path]

\* the stages whose files a stage reads, directly or through other stages
Upstream(k) ==
    CASE k = 1 -> {}
      [] k = 2 -> {1}
      [] k = 3 -> {}
      [] k = 4 -> {1, 2, 3}
      [] k = 5 -> {1, 2, 3, 4}

\* C27: in a completed run without overwrite, whenever a stage method was
\* called, the methods of all stages that read its output were called too
DownstreamRerun ==
    (pc = "done" /\ ~overwrite /\ runs = 1) =>
        \A k \in 1..Len(Methods) : \A j \in Upstream(k) :
            Ran(Methods[j]) => Ran(Methods[k])

\* C28: a stage method that fails has written no file
FailedStageWroteNothing ==
    [][(pc = "running" /\ pc' = "failed") => disk' = disk]_vars

FailureState ==
    /\ (raised # NoError) <=> (pc = "failed")
    /\ (error # "none") <=> (pc = "failed")
    /\ (pc = "failed") =>
          /\ executed # <<>>
          /\ executed[Len(executed)] = Methods[stage]
          /\ IF error = "MemoryError"
             THEN raised = [type |-> "MemoryError", message |-> ""]
             ELSE raised = [type |-> "RuntimeError",
                            message |-> Methods[stage] \o " failed: " \o error]

FailureStep ==
    (pc = "failed") => (pc' = "failed" /\ executed' = executed /\ disk' = disk
                            /\ raised' = raised)

\* C29: when a stage method raises, the run ends there: no further method is
\* called, and process_vectors raises the MemoryError itself, or for any
\* other exception a RuntimeError "<method> failed: <message>"
FailureReachesCaller == []FailureState /\ [][FailureStep]_vars

\* road_buffer failed on an edge without geometry
FailureReachesCallerWitness ==
    /\ pc = "failed"
    /\ stage = 3
    /\ raised = [type |-> "RuntimeError",
                 message |-> "road_buffer failed: Input contains null geometries"]
    /\ ~Ran("clip_roads")

----------------------------------------------------------------------------
(* The weights at the ends of the scales (checked under SpecGreendex) *)

\* C30: in a table with two different lengths, every edge of the smallest
\* length has weight 0, every edge of greendex 1 has weight 0, every edge of
\* the largest length has the weight round(1 - greendex, 4), and an edge
\* with a greendex in [0, 1] has a weight in [0, 1]
WeightAtExtremes ==
    (Saved /\ Len(gdf) > 0 /\ ~AllLengthsEqual(gdf)) =>
        LET lmin == series_min(Column(gdf, "length"))
            lmax == series_max(Column(gdf, "length"))
        IN  \A i \in 1..Len(gdf) :
                /\ (gdf[i].length = lmin) => gdf[i].weight = F(0)
                /\ (gdf[i].greendex = F(1)) => gdf[i].weight = F(0)
                /\ (gdf[i].length = lmax) =>
                      gdf[i].weight = round(FSub(F(1), gdf[i].greendex), Decimals)
                /\ (FLe(F(0), gdf[i].greendex) /\ FLe(gdf[i].greendex, F(1))) =>
                      (FLe(F(0), gdf[i].weight) /\ FLe(gdf[i].weight, F(1)))

====
